---- MODULE Spec2Model ----
(***************************************************************************)
(* Verification model of aether-particles: the PatternGenerator shape      *)
(* generators, the GestureDetector per-frame state machine and the         *)
(* gesture inputs of the ParticleSystem.                                   *)
(*                                                                         *)
(* Real numbers are kept in fixed point: a value v of the program is the   *)
(* integer v * Scale.  Joint angles are kept as fractions of pi, the other *)
(* angles in radians, times in milliseconds.                               *)
(***************************************************************************)
EXTENDS Integers, Sequences, FiniteSets, TLC

VARIABLES
    \* --- PatternGenerator call under test --------------------------------
    pgName,        \* the name handed to getPattern
    pgCount,       \* the count handed to the generator
    pgGenerator,   \* the value getPattern returned (Undefined before the call)
    pgResult,      \* what calling that value with pgCount produced
    \* --- GestureDetector ------------------------------------------------
    now,                  \* performance.now(), in milliseconds
    frames,               \* number of onResults calls so far
    gestureValue,         \* this.gestureValue (filtered openness)
    isHandDetected,
    opennessFilter,       \* OneEuroFilter(1.0, 0.007, 1.0)
    pinchFilter,          \* OneEuroFilter(1.0, 0.01, 1.0)
    palmVelocityTracker,  \* VelocityTracker(8)
    velocity,
    fingerCurls,
    pinchValue,
    isPinching,
    handRotation,
    currentGesture,
    gestureConfidence,
    twoHandsDetected,
    handDistance,
    handSpread,
    twoHandRotation,
    events,               \* callbacks the last onResults invoked, in order
    snapshot,             \* getGestureData() handed to onGestureUpdate last
    lastPinchEvent,       \* the latest of onPinchStart / onPinchEnd ever invoked
    lastHandEvent,        \* the latest of onHandDetected / onHandLost
    lastTwoHandsEvent,    \* the latest of onTwoHandsDetected / onTwoHandsLost
    raised,               \* the last onResults call ended in a TypeError
    lastResults,          \* the results object of the last onResults call
    \* --- ParticleSystem gesture inputs ----------------------------------
    psGestureValue,       \* ParticleSystem.gestureValue
    targetScale,
    targetPinchValue,
    handVelocity,
    targetTurbulence,
    targetRotation,
    targetExplosionForce,
    \* --- ParticleSystem buffers -----------------------------------------
    particleCount,
    basePositions,        \* a Float32Array: its length and what it holds
    targetPositions,
    previousPositions,
    velocities,
    geometry,             \* this.geometry.attributes: position, size, alpha
    trailsEnabled,
    trailLength,
    trailGeometry,        \* null, or the position attribute of the trail mesh
    trailHistory,         \* the snapshots, newest first
    trailUpdateCounter,
    \* --- ParticleSystem.updatePositions, one coordinate of one particle ----
    currentX,             \* positions[i3]
    velocityX,            \* this.velocities[i3]
    targetX,              \* this.basePositions[i3] * this.currentScale
    morphSpeed,
    ticks,                \* number of updatePositions calls so far
    distanceX,            \* |currentX - targetX| after the last call
    distanceBefore,       \* and before it
    \* --- a OneEuroFilter called on its own ------------------------------
    ftFilter,             \* the filter
    ftClock,              \* performance.now(), in milliseconds
    ftCall,               \* the last call: filter(x, timestamp) or reset()
    ftOut,                \* what the last filter call returned, if any
    ftCalls,              \* number of filter calls so far
    ftResetFrom,          \* the filter as it was when reset() was last called
    ftTwin,               \* a filter constructed at that reset, called alike
    ftTwinOut,
    \* --- a VelocityTracker called on its own ----------------------------
    trTracker,            \* the tracker
    trClock,              \* performance.now(), in milliseconds
    trSamples,            \* the (position, timestamp) pairs passed to update
                          \* since construction or reset()
    trUpdates,            \* number of update calls so far
    \* --- calculateFingerCurl called on its own --------------------------
    fcJoints,             \* <<mcp, pip, dip, tip>>
    fcCurl,               \* calculateFingerCurl of them, once computed
    fcMoved,              \* how the joints were moved, and the moved joints
    fcMovedCurl,          \* calculateFingerCurl of the moved joints
    \* --- the LOD system ------------------------------------------------
    currentLOD,           \* the LOD fraction
    fpsHistory,           \* frame rates of the last frames
    currentFPS,           \* their average
    lodTicks,             \* animation frames so far
    updatedCount,         \* particles the last updatePositions moved, if any
    \* --- the application: init and its fallback --------------------------
    appStep,              \* where init is: "constructed", "awaitingCamera",
                          \* "ready", "fallback"
    isInitialized,        \* App.isInitialized
    particleSystemMade,   \* App.particleSystem is not null
    mouseControlEnabled,  \* ParticleSystem.mouseControlEnabled
    reports,              \* what handleInitError told the user, in order
    callbacksWired,       \* number of setupUICallbacks calls
    loadingShown,         \* the loading overlay is visible
    appClock,             \* milliseconds since the page was opened
    appTimers,            \* pending setTimeout callbacks
    failedAt,             \* when handleInitError ran, if it did
    \* --- audio capture ---------------------------------------------------
    audioToggle,          \* the audio checkbox is checked
    audioContext,         \* ParticleSystem.audioContext
    audioEnabled,         \* ParticleSystem.audioEnabled
    analyser,             \* the context ParticleSystem.analyser belongs to
    openContexts,         \* AudioContexts created and not closed
    liveStreams,          \* microphone streams acquired and not stopped
    pendingAudio,         \* initAudio calls waiting for getUserMedia
    audioCalls,           \* number of initAudio calls so far
    lastAudio,            \* how the last settled initAudio call ended
    \* --- the selected pattern -------------------------------------------
    uiCurrentPattern,     \* UIController.currentPattern
    psCurrentPattern,     \* ParticleSystem.currentPattern
    startPattern,         \* the UI's pattern before the first thumbsUp event
    thumbsUps,            \* thumbsUp events since then
    lastSetPattern,       \* the argument of the last setPattern call, if any
    \* --- presets -------------------------------------------------------
    controls,             \* the UI controls: currentColor, the sliders' values,
                          \* the toggles' checked
    psSettings,           \* the particle system's value for each of them
    countTimeout,         \* the pending debounce timer of onParticleCountChange
    customPresets,        \* UIController.customPresets
    savedFrom,            \* for each custom preset, the controls it was saved
                          \* from (Null for an imported one)
    lastLoad,             \* the last loadPreset call, until the next input
    presetOps,            \* user operations so far
    storedPresets,        \* localStorage item 'customPresets'
    toast,                \* the toast the last handler showed, if any
    \* --- the smoothed scale ---------------------------------------------
    currentScale,         \* ParticleSystem.currentScale
    \* --- the curls of one hand, read on their own -----------------------
    hcCurls,              \* this.fingerCurls
    hcOpenness,           \* calculateHandOpenness of them, once computed
    hcThumb,              \* another thumb curl, once tried
    hcThumbOpenness,      \* calculateHandOpenness with that thumb curl
    hcDetected,           \* the tests of detectSpecialGestures that passed, and the label
    \* --- the debounce of the particle count ---------------------------
    dbTimers,             \* pending setTimeout callbacks of onParticleCountChange
    dbEvents,             \* particle-count events and resets so far
    dbBurst,              \* the counts of the events since a timer last fired
                          \* with none left pending
    dbSince,              \* milliseconds since the last of them
    dbInvoked             \* the setParticleCount calls since the burst began

pgVars == <<pgName, pgCount, pgGenerator, pgResult>>

gdVars == <<now, frames, gestureValue, isHandDetected, opennessFilter, pinchFilter,
            palmVelocityTracker, velocity, fingerCurls, pinchValue, isPinching,
            handRotation, currentGesture, gestureConfidence, twoHandsDetected,
            handDistance, handSpread, twoHandRotation, events, snapshot,
            lastPinchEvent, lastHandEvent, lastTwoHandsEvent, raised, lastResults>>

psVars == <<psGestureValue, targetScale, targetPinchValue, handVelocity,
            targetTurbulence, targetRotation, targetExplosionForce>>

pbVars == <<particleCount, basePositions, targetPositions, previousPositions,
            velocities, geometry, trailsEnabled, trailLength, trailGeometry,
            trailHistory, trailUpdateCounter>>

upVars == <<currentX, velocityX, targetX, morphSpeed, ticks, distanceX, distanceBefore>>

ftVars == <<ftFilter, ftClock, ftCall, ftOut, ftCalls, ftResetFrom, ftTwin, ftTwinOut>>

trVars == <<trTracker, trClock, trSamples, trUpdates>>

fcVars == <<fcJoints, fcCurl, fcMoved, fcMovedCurl>>

lodVars == <<currentLOD, fpsHistory, currentFPS, lodTicks, updatedCount>>

appVars == <<appStep, isInitialized, particleSystemMade, mouseControlEnabled, reports,
             callbacksWired, loadingShown, appClock, appTimers, failedAt>>

auVars == <<audioToggle, audioContext, audioEnabled, analyser, openContexts,
            liveStreams, pendingAudio, audioCalls, lastAudio>>

cyVars == <<uiCurrentPattern, psCurrentPattern, startPattern, thumbsUps, lastSetPattern>>

prVars == <<controls, psSettings, countTimeout, customPresets, savedFrom, lastLoad,
            presetOps, storedPresets, toast>>

scVars == <<currentScale>>

hcVars == <<hcCurls, hcOpenness, hcThumb, hcThumbOpenness, hcDetected>>

dbVars == <<dbTimers, dbEvents, dbBurst, dbSince, dbInvoked>>

vars == <<pgVars, gdVars, psVars, pbVars, upVars, ftVars, trVars, fcVars, lodVars, appVars, auVars, cyVars, prVars, scVars, hcVars, dbVars>>

\* what the actions of one part leave alone
exceptPattern == <<gdVars, psVars, pbVars, upVars, ftVars, trVars, fcVars, lodVars, appVars, auVars, cyVars, prVars, scVars, hcVars, dbVars>>
exceptGesture == <<pgVars, pbVars, upVars, ftVars, trVars, fcVars, lodVars, appVars, auVars, cyVars, prVars, scVars, hcVars, dbVars>>
exceptBuffers == <<pgVars, gdVars, psVars, upVars, ftVars, trVars, fcVars, lodVars, appVars, auVars, cyVars, prVars, scVars, hcVars, dbVars>>
exceptUpdate  == <<pgVars, gdVars, psVars, pbVars, ftVars, trVars, fcVars, lodVars, appVars, auVars, cyVars, prVars, scVars, hcVars, dbVars>>
exceptFilter  == <<pgVars, gdVars, psVars, pbVars, upVars, trVars, fcVars, lodVars, appVars, auVars, cyVars, prVars, scVars, hcVars, dbVars>>
exceptTracker == <<pgVars, gdVars, psVars, pbVars, upVars, ftVars, fcVars, lodVars, appVars, auVars, cyVars, prVars, scVars, hcVars, dbVars>>
exceptCurl    == <<pgVars, gdVars, psVars, pbVars, upVars, ftVars, trVars, lodVars, appVars, auVars, cyVars, prVars, scVars, hcVars, dbVars>>
exceptLOD == <<pgVars, gdVars, psVars, pbVars, upVars, ftVars, trVars, fcVars, appVars, auVars, cyVars, prVars, scVars, hcVars, dbVars>>
exceptApp == <<pgVars, gdVars, psVars, pbVars, upVars, ftVars, trVars, fcVars, lodVars, auVars, cyVars, prVars, scVars, hcVars, dbVars>>
exceptAudio == <<pgVars, gdVars, psVars, pbVars, upVars, ftVars, trVars, fcVars, lodVars, appVars, cyVars, prVars, scVars, hcVars, dbVars>>
exceptPatternChange == <<pgVars, gdVars, psVars, upVars, ftVars, trVars, fcVars, lodVars, appVars, auVars, prVars, scVars, hcVars, dbVars>>
exceptPreset == <<pgVars, gdVars, psVars, upVars, ftVars, trVars, fcVars, lodVars, appVars, auVars, scVars, hcVars, dbVars>>
exceptScale == <<pgVars, gdVars, pbVars, upVars, ftVars, trVars, fcVars, lodVars, appVars, auVars, cyVars, prVars, hcVars, dbVars>>
exceptCurls == <<pgVars, gdVars, psVars, pbVars, upVars, ftVars, trVars, fcVars, lodVars, appVars, auVars, cyVars, prVars, scVars, dbVars>>
exceptDebounce == <<pgVars, gdVars, psVars, upVars, ftVars, trVars, fcVars, lodVars, appVars, auVars, scVars, hcVars>>

\* Largest particle count handed to a generator.
MaxCount == 13

(***************************************************************************)
(* Arithmetic helpers                                                      *)
(***************************************************************************)
Min(a, b) == IF a < b THEN a ELSE b
Max(a, b) == IF a > b THEN a ELSE b

\* Math.floor(a / b) for a >= 0, b > 0.
Floor(a, b) == a \div b

\* Math.ceil(a / b) for a >= 0; a / 0 is NaN or Infinity, and every loop
\* test "i < NaN" is false, which a bound of 0 reproduces.
Ceil(a, b) == IF b = 0 THEN 0 ELSE (a + b - 1) \div b

\* Math.ceil(Math.sqrt(p / q)) for p >= 0, q > 0: the least n with n*n >= p/q.
CeilSqrt(p, q) ==
    CHOOSE n \in 0..(p + 1) :
        /\ n * n * q >= p
        /\ (n = 0 \/ (n - 1) * (n - 1) * q < p)

(***************************************************************************)
(* Float32Array of positions.  A slot is "zero" (never written, the        *)
(* buffer's default 0), "num" (a finite number was written) or "NaN" (the  *)
(* written expression had a 0/0 in it).                                    *)
(***************************************************************************)
NewFloat32Array(n) == [k \in 1..n |-> "zero"]

\* Variant of Begin: the buffer sized per point instead of per coordinate.
BeginPerPoint(count) == [positions |-> NewFloat32Array(count), idx |-> 0]

\* const positions = new Float32Array(count * 3); let idx = 0;
Begin(count) == [positions |-> NewFloat32Array(count * 3), idx |-> 0]

\* positions[idx*3] = x; positions[idx*3+1] = y; positions[idx*3+2] = z; idx++
\* (a typed array ignores a write outside its length).
Put(st, pt) ==
    [positions |-> [k \in 1..Len(st.positions) |->
                       IF k = st.idx * 3 + 1 THEN pt[1]
                       ELSE IF k = st.idx * 3 + 2 THEN pt[2]
                       ELSE IF k = st.idx * 3 + 3 THEN pt[3]
                       ELSE st.positions[k]],
     idx |-> st.idx + 1]

\* i / d evaluated at the only index a zero denominator admits (i = 0).
Quot(d) == IF d = 0 THEN "NaN" ELSE "num"

\* A coordinate computed from several sub-expressions is NaN if any is.
Num(parts) == IF "NaN" \in parts THEN "NaN" ELSE "num"

\* for (i = 0; i < rows && idx < limit; i++)
\*   for (j = 0; j < cols && idx < limit; j++) { emit pt }
RECURSIVE GridLoop(_, _, _, _, _, _, _)
GridLoop(st, i, j, rows, cols, limit, pt) ==
    IF ~(i < rows /\ st.idx < limit) THEN st
    ELSE IF ~(j < cols /\ st.idx < limit)
         THEN GridLoop(st, i + 1, 0, rows, cols, limit, pt)
         ELSE GridLoop(Put(st, pt), i, j + 1, rows, cols, limit, pt)

\* for (i = 0; i < rows && idx < limit; i++)
\*   for (j = 0; j <= i && idx < limit; j++) { emit pt }
RECURSIVE TriLoop(_, _, _, _, _, _)
TriLoop(st, i, j, rows, limit, pt) ==
    IF ~(i < rows /\ st.idx < limit) THEN st
    ELSE IF ~(j <= i /\ st.idx < limit)
         THEN TriLoop(st, i + 1, 0, rows, limit, pt)
         ELSE TriLoop(Put(st, pt), i, j + 1, rows, limit, pt)

\* for (k = 0; k < n; k++) st = GridLoop(st, ...)   (one pass per face/strand/arm)
RECURSIVE Repeat(_, _, _, _, _, _)
Repeat(st, n, rows, cols, limit, pt) ==
    IF n = 0 THEN st
    ELSE Repeat(GridLoop(st, 0, 0, rows, cols, limit, pt), n - 1, rows, cols, limit, pt)

RECURSIVE RepeatTri(_, _, _, _, _)
RepeatTri(st, n, rows, limit, pt) ==
    IF n = 0 THEN st
    ELSE RepeatTri(TriLoop(st, 0, 0, rows, limit, pt), n - 1, rows, limit, pt)

\* while (idx < count) { emit pt }
RECURSIVE WhileFill(_, _, _)
WhileFill(st, limit, pt) ==
    IF st.idx < limit THEN WhileFill(Put(st, pt), limit, pt) ELSE st

Finite == <<"num", "num", "num">>

(***************************************************************************)
(* The generators                                                          *)
(***************************************************************************)
sphere(count) ==
    LET gridV == CeilSqrt(count, 2)
        gridU == Ceil(count, gridV)
        v     == Quot(gridV - 1)
    IN GridLoop(Begin(count), 0, 0, gridV, gridU, count, <<v, v, v>>)

torus(count) ==
    LET gridU == CeilSqrt(count * 3, 2)
        gridV == Ceil(count, gridU)
    IN GridLoop(Begin(count), 0, 0, gridU, gridV, count, Finite)

saturn(count) ==
    LET sphereCount == Floor(count * 7, 10)
        ringCount   == count - sphereCount
        gridV       == CeilSqrt(sphereCount, 2)
        gridU       == Ceil(sphereCount, gridV)
        v           == Quot(gridV - 1)
        ball        == GridLoop(Begin(count), 0, 0, gridV, gridU, sphereCount, <<v, v, v>>)
        ringGridU   == CeilSqrt(ringCount * 3, 1)
        ringGridV   == Ceil(ringCount, ringGridU)
    IN GridLoop(ball, 0, 0, ringGridV, ringGridU, count, Finite)

helix(count) ==
    LET perStrand == Floor(count, 2)
    IN Repeat(Begin(count), 2, perStrand, 1, count, Finite)

galaxy(count) ==
    LET arms   == 3
        perArm == Floor(count, arms)
        spiral == Repeat(Begin(count), arms, perArm, 1, count, Finite)
    IN WhileFill(spiral, count, Finite)

cube(count) ==
    LET perFace  == Floor(count, 6)
        gridSize == CeilSqrt(perFace, 1)
        uv       == Quot(gridSize - 1)
        \* one coordinate of each face is sign * half, the other two use u, v
    IN Repeat(Repeat(Repeat(Begin(count),
                            2, gridSize, gridSize, count, <<"num", uv, uv>>),
                     2, gridSize, gridSize, count, <<uv, "num", uv>>),
              2, gridSize, gridSize, count, <<uv, uv, "num">>)

pyramid(count) ==
    LET perFace  == Floor(count, 5)
        baseGrid == CeilSqrt(perFace, 1)
        b        == Quot(baseGrid - 1)
        base     == GridLoop(Begin(count), 0, 0, baseGrid, baseGrid, perFace, <<b, "num", b>>)
        faceGrid == CeilSqrt(perFace, 1)
        t        == Quot(faceGrid - 1)
    IN RepeatTri(base, 4, faceGrid, count, <<t, t, t>>)

heart(count) ==
    LET gridU == CeilSqrt(count * 2, 1)
        gridV == Ceil(count, gridU)
    IN GridLoop(Begin(count), 0, 0, gridU, gridV, count, Finite)

star(count) ==
    LET gridU == CeilSqrt(count, 1)
        gridV == Ceil(count, gridU)
        v     == Quot(gridV - 1)
    IN GridLoop(Begin(count), 0, 0, gridU, gridV, count, <<v, v, v>>)

wave(count) ==
    LET gridX == CeilSqrt(count * 5, 4)
        gridZ == Ceil(count, gridX)
        x     == Quot(gridX - 1)
        z     == Quot(gridZ - 1)
        y     == Num({x, z})
    IN GridLoop(Begin(count), 0, 0, gridX, gridZ, count, <<x, y, z>>)

infinity(count) ==
    LET gridU == CeilSqrt(count * 2, 1)
        gridV == Ceil(count, gridU)
    IN GridLoop(Begin(count), 0, 0, gridU, gridV, count, Finite)

firework(count) ==
    LET trails            == 16
        particlesPerTrail == Ceil(count, trails)
    IN GridLoop(Begin(count), 0, 0, trails, particlesPerTrail, count, Finite)

tornado(count) ==
    LET gridU == CeilSqrt(count * 2, 1)
        gridV == Ceil(count, gridU)
        t     == Quot(gridV - 1)
    IN GridLoop(Begin(count), 0, 0, gridV, gridU, count, <<t, t, t>>)

dna(count) == helix(count)

(***************************************************************************)
(* getPattern: a property lookup on an object literal                      *)
(***************************************************************************)
getPatternNames ==
    {"sphere", "cube", "heart", "galaxy", "dna", "helix", "torus", "saturn",
     "star", "wave", "pyramid", "infinity", "firework", "tornado"}

\* Names every object literal inherits from Object.prototype.  "constructor"
\* and "toString" are functions, "__proto__" is the prototype object itself.
ObjectPrototypeKeys == {"constructor", "toString", "__proto__"}

\* Names found neither on the literal nor on its prototype.
UnknownNames == {"blob", ""}

Undefined == [kind |-> "undefined", name |-> ""]

\* patterns[name]: own property first, then the prototype chain.
Lookup(name) ==
    IF name \in getPatternNames THEN [kind |-> "generator", name |-> name]
    ELSE IF name \in ObjectPrototypeKeys THEN [kind |-> "inherited", name |-> name]
    ELSE Undefined

\* Every function and object is truthy; undefined is falsy.
Truthy(v) == v.kind # "undefined"

getPattern(name) ==
    IF Truthy(Lookup(name)) THEN Lookup(name) ELSE Lookup("sphere")

\* generator(count) for a value returned by getPattern.
Invoke(g, count) ==
    IF g.kind = "generator" THEN
        [kind |-> "positions"] @@
        (CASE g.name = "sphere"   -> sphere(count)
           [] g.name = "cube"     -> cube(count)
           [] g.name = "heart"    -> heart(count)
           [] g.name = "galaxy"   -> galaxy(count)
           [] g.name = "dna"      -> dna(count)
           [] g.name = "helix"    -> helix(count)
           [] g.name = "torus"    -> torus(count)
           [] g.name = "saturn"   -> saturn(count)
           [] g.name = "star"     -> star(count)
           [] g.name = "wave"     -> wave(count)
           [] g.name = "pyramid"  -> pyramid(count)
           [] g.name = "infinity" -> infinity(count)
           [] g.name = "firework" -> firework(count)
           [] g.name = "tornado"  -> tornado(count))
    ELSE IF g.name = "__proto__"
         \* Object.prototype is not callable: TypeError
         THEN [kind |-> "raised", positions |-> <<>>, idx |-> 0]
         \* Object(count) / toString(count) return something that is not a
         \* position buffer
         ELSE [kind |-> "foreign", positions |-> <<>>, idx |-> 0]

NoResult == [kind |-> "none", positions |-> <<>>, idx |-> 0]

(***************************************************************************)
(* Fixed point and geometry helpers                                        *)
(***************************************************************************)
\* A program value v is kept as the integer v * Scale.
Scale == 10 * 10 * 10

\* Math.PI * Scale
Pi == 3142

\* Largest number of onResults calls in one run.
MaxFrames == 3

Abs(v) == IF v < 0 THEN 0 - v ELSE v

\* Math.max(0, Math.min(1, v))
Clamp01(v) == Max(0, Min(Scale, v))

\* Math.sqrt on integers: the largest r with r * r <= n.
RECURSIVE SqrtSearch(_, _, _)
SqrtSearch(n, lo, hi) ==
    IF hi - lo <= 1 THEN lo
    ELSE LET mid == (lo + hi) \div 2
         IN IF mid * mid <= n THEN SqrtSearch(n, mid, hi) ELSE SqrtSearch(n, lo, mid)

Sqrt(n) == SqrtSearch(n, 0, 46341)

\* NaN, kept apart from every number of the model.  Comparisons with it are
\* false, as in the program: it is below every threshold it is compared to
\* with > and it is outside every range.
NaN == 0 - Scale * Scale * Scale

\* null / a value
Null == <<>>
Some(v) == <<v>>

\* timestamp || clock : null and 0 are falsy
OrClock(timestamp, clock) ==
    IF timestamp = Null \/ timestamp = Some(0) THEN clock ELSE timestamp[1]

Pt(x, y, z) == [x |-> x, y |-> y, z |-> z]
Plus(p, q) == Pt(p.x + q.x, p.y + q.y, p.z + q.z)
Minus(p, q) == Pt(p.x - q.x, p.y - q.y, p.z - q.z)

\* Math.atan2(dy, dx) * Scale.  Exact on the axes and the diagonals; in
\* between, atan(q) = q * (pi/4 + 0.273 * (1 - q)) for 0 <= q <= 1.
AtanUnit(num, den) ==
    LET q == (num * Scale) \div den
    IN (q * (Pi \div 4 + (273 * (Scale - q)) \div Scale)) \div Scale

AtanFirstQuadrant(dy, dx) ==
    IF dx = 0 THEN Pi \div 2
    ELSE IF dy <= dx THEN AtanUnit(dy, dx)
    ELSE Pi \div 2 - AtanUnit(dx, dy)

atan2(dy, dx) ==
    IF dx = 0 /\ dy = 0 THEN 0
    ELSE LET a == AtanFirstQuadrant(Abs(dy), Abs(dx))
         IN IF dx >= 0 /\ dy >= 0 THEN a
            ELSE IF dx < 0 /\ dy >= 0 THEN Pi - a
            ELSE IF dx < 0 THEN a - Pi
            ELSE 0 - a

\* Math.acos(dot / (mag1 * mag2)) / Math.PI * Scale, from the squared
\* magnitudes m1, m2.  Exact where the angle is a multiple of pi/6 or pi/4
\* (all the joint vectors of the frames below); any other angle is taken as
\* the next such angle above it.
AcosAcute(dot, mm) ==
    IF dot * dot = mm THEN 0
    ELSE IF 4 * dot * dot >= 3 * mm THEN Scale \div 6
    ELSE IF 2 * dot * dot >= mm THEN Scale \div 4
    ELSE IF 4 * dot * dot >= mm THEN Scale \div 3
    ELSE Scale \div 2

AcosObtuse(dot, mm) ==
    IF dot * dot = mm THEN Scale
    ELSE IF 4 * dot * dot > 3 * mm THEN Scale
    ELSE IF 2 * dot * dot > mm THEN Scale - Scale \div 6
    ELSE IF 4 * dot * dot > mm THEN Scale - Scale \div 4
    ELSE Scale - Scale \div 3

(***************************************************************************)
(* OneEuroFilter                                                           *)
(***************************************************************************)
\* constructor(minCutoff, beta, dCutoff); all three times Scale
OneEuroFilter(minCutoff, beta, dCutoff) ==
    [minCutoff |-> minCutoff, beta |-> beta, dCutoff |-> dCutoff,
     xPrev |-> Null, dxPrev |-> 0, tPrev |-> Null]

\* 1 / (1 + tau / dt) with tau = 1 / (2 pi cutoff), dt in milliseconds and
\* pi = 22/7:  2 pi cutoff dt = 44 cutoff dt / (7 Scale^2)
alpha(cutoff, dt) ==
    LET n == 44 * cutoff * dt
    IN n \div ((n + 7 * Scale * Scale) \div Scale)

\* filter(x, timestamp): the new filter state and the returned value
filter(f, x, timestamp, clock) ==
    LET t == OrClock(timestamp, clock)
    IN IF f.xPrev = Null
       THEN [f |-> [f EXCEPT !.xPrev = Some(x), !.tPrev = Some(t)], out |-> x]
       ELSE LET dt == t - f.tPrev[1]
                xp == f.xPrev[1]
            IN IF dt <= 0 THEN [f |-> f, out |-> xp]
               ELSE IF x = NaN \/ xp = NaN \/ f.dxPrev = NaN
               THEN [f |-> [f EXCEPT !.xPrev = Some(NaN), !.dxPrev = NaN,
                                     !.tPrev = Some(t)],
                     out |-> NaN]
               ELSE LET dx       == ((x - xp) * 1000) \div dt
                        ad       == alpha(f.dCutoff, dt)
                        edx      == (ad * dx + (Scale - ad) * f.dxPrev) \div Scale
                        cutoff   == f.minCutoff + (f.beta * Abs(edx)) \div Scale
                        a        == alpha(cutoff, dt)
                        filtered == (a * x + (Scale - a) * xp) \div Scale
                    IN [f |-> [f EXCEPT !.xPrev = Some(filtered), !.dxPrev = edx,
                                        !.tPrev = Some(t)],
                        out |-> filtered]

\* a reset that forgets the value and the time but not the derivative
resetKeepingDerivative(f) == [f EXCEPT !.xPrev = Null, !.tPrev = Null]

resetFilter(f) == [f EXCEPT !.xPrev = Null, !.dxPrev = 0, !.tPrev = Null]

(***************************************************************************)
(* VelocityTracker                                                         *)
(***************************************************************************)
VelocityTracker(historyLength) ==
    [positions |-> <<>>, timestamps |-> <<>>, historyLength |-> historyLength]

\* an update that drops the newest sample when the window is full
updateKeepingOldest(vt, position, timestamp, clock) ==
    LET t  == OrClock(timestamp, clock)
        ps == Append(vt.positions, position)
        ts == Append(vt.timestamps, t)
    IN IF Len(ps) > vt.historyLength
       THEN [vt EXCEPT !.positions = SubSeq(ps, 1, Len(ps) - 1),
                       !.timestamps = SubSeq(ts, 1, Len(ts) - 1)]
       ELSE [vt EXCEPT !.positions = ps, !.timestamps = ts]

update(vt, position, timestamp, clock) ==
    LET t  == OrClock(timestamp, clock)
        ps == Append(vt.positions, position)
        ts == Append(vt.timestamps, t)
    IN IF Len(ps) > vt.historyLength
       THEN [vt EXCEPT !.positions = Tail(ps), !.timestamps = Tail(ts)]
       ELSE [vt EXCEPT !.positions = ps, !.timestamps = ts]

ZeroVelocity == [x |-> 0, y |-> 0, z |-> 0, magnitude |-> 0]

getVelocity(vt) ==
    IF Len(vt.positions) < 2 THEN ZeroVelocity
    ELSE LET newest == vt.positions[Len(vt.positions)]
             oldest == vt.positions[1]
             ms     == vt.timestamps[Len(vt.timestamps)] - vt.timestamps[1]
         IN IF ms <= 0 THEN ZeroVelocity
            ELSE LET vx == ((newest.x - oldest.x) * 1000) \div ms
                     vy == ((newest.y - oldest.y) * 1000) \div ms
                     vz == ((newest.z - oldest.z) * 1000) \div ms
                 IN [x |-> vx, y |-> vy, z |-> vz,
                     magnitude |-> Sqrt(vx * vx + vy * vy + vz * vz)]

resetTracker(vt) == [vt EXCEPT !.positions = <<>>, !.timestamps = <<>>]

(***************************************************************************)
(* GestureDetector: per-frame computations                                 *)
(***************************************************************************)
LANDMARKS ==
    [WRIST |-> 0,
     THUMB_CMC |-> 1, THUMB_MCP |-> 2, THUMB_IP |-> 3, THUMB_TIP |-> 4,
     INDEX_MCP |-> 5, INDEX_PIP |-> 6, INDEX_DIP |-> 7, INDEX_TIP |-> 8,
     MIDDLE_MCP |-> 9, MIDDLE_PIP |-> 10, MIDDLE_DIP |-> 11, MIDDLE_TIP |-> 12,
     RING_MCP |-> 13, RING_PIP |-> 14, RING_DIP |-> 15, RING_TIP |-> 16,
     PINKY_MCP |-> 17, PINKY_PIP |-> 18, PINKY_DIP |-> 19, PINKY_TIP |-> 20]

\* landmarks[i], the array being 0-based
At(landmarks, i) == landmarks[i + 1]

pinchThreshold == 700

distance3D(p1, p2) ==
    LET d == Minus(p1, p2)
    IN Sqrt(d.x * d.x + d.y * d.y + d.z * d.z)

getPalmCenter(landmarks) ==
    LET L == LANDMARKS
        a == At(landmarks, L.INDEX_MCP)
        b == At(landmarks, L.MIDDLE_MCP)
        c == At(landmarks, L.RING_MCP)
        d == At(landmarks, L.PINKY_MCP)
    IN Pt((a.x + b.x + c.x + d.x) \div 4,
          (a.y + b.y + c.y + d.y) \div 4,
          (a.z + b.z + c.z + d.z) \div 4)

angleBetweenVectors(v1, v2) ==
    LET dot  == v1.x * v2.x + v1.y * v2.y + v1.z * v2.z
        mag1 == v1.x * v1.x + v1.y * v1.y + v1.z * v1.z
        mag2 == v2.x * v2.x + v2.y * v2.y + v2.z * v2.z
    IN IF mag1 = 0 \/ mag2 = 0 THEN Scale
       ELSE IF dot >= 0 THEN AcosAcute(dot, mag1 * mag2)
       ELSE AcosObtuse(dot, mag1 * mag2)

\* the curl taken from the joints themselves, not from the bones between
\* them
curlOfPositions(mcp, pip, dip, tip) ==
    LET angle1   == angleBetweenVectors(pip, dip)
        angle2   == angleBetweenVectors(dip, tip)
        avgAngle == (angle1 + angle2) \div 2
        curl     == Scale - avgAngle
    IN Clamp01(curl)

calculateFingerCurl(mcp, pip, dip, tip) ==
    LET v1       == Minus(pip, mcp)
        v2       == Minus(dip, pip)
        v3       == Minus(tip, dip)
        angle1   == angleBetweenVectors(v1, v2)
        angle2   == angleBetweenVectors(v2, v3)
        avgAngle == (angle1 + angle2) \div 2
        curl     == Scale - avgAngle
    IN Clamp01(curl)

calculateFingerCurls(landmarks) ==
    LET L == LANDMARKS
        finger(a, b, c, d) ==
            calculateFingerCurl(At(landmarks, a), At(landmarks, b),
                                At(landmarks, c), At(landmarks, d))
    IN [thumb  |-> finger(L.THUMB_CMC, L.THUMB_MCP, L.THUMB_IP, L.THUMB_TIP),
        index  |-> finger(L.INDEX_MCP, L.INDEX_PIP, L.INDEX_DIP, L.INDEX_TIP),
        middle |-> finger(L.MIDDLE_MCP, L.MIDDLE_PIP, L.MIDDLE_DIP, L.MIDDLE_TIP),
        ring   |-> finger(L.RING_MCP, L.RING_PIP, L.RING_DIP, L.RING_TIP),
        pinky  |-> finger(L.PINKY_MCP, L.PINKY_PIP, L.PINKY_DIP, L.PINKY_TIP)]

\* an openness that weighs the thumb in place of the pinky
opennessWithThumb(curls) ==
    LET weights  == [index |-> 350, middle |-> 300, ring |-> 200, thumb |-> 150]
        openness == ( (Scale - curls.index) * weights.index
                    + (Scale - curls.middle) * weights.middle
                    + (Scale - curls.ring) * weights.ring
                    + (Scale - curls.thumb) * weights.thumb ) \div Scale
    IN Clamp01(openness)

calculateHandOpenness(curls) ==
    LET weights  == [index |-> 350, middle |-> 300, ring |-> 200, pinky |-> 150]
        openness == ( (Scale - curls.index) * weights.index
                    + (Scale - curls.middle) * weights.middle
                    + (Scale - curls.ring) * weights.ring
                    + (Scale - curls.pinky) * weights.pinky ) \div Scale
    IN Clamp01(openness)

calculatePinchValue(landmarks) ==
    LET L              == LANDMARKS
        distance       == distance3D(At(landmarks, L.THUMB_TIP), At(landmarks, L.INDEX_TIP))
        refDist        == distance3D(At(landmarks, L.INDEX_MCP), At(landmarks, L.WRIST))
        normalizedDist == (distance * Scale) \div refDist
    IN IF refDist = 0
       THEN (IF distance = 0 THEN NaN      \* 0 / 0, and Math.min(1, NaN) is NaN
             ELSE 0)                       \* distance / 0 is Infinity, clamped to 1
       ELSE Scale - Clamp01(((normalizedDist - 100) * 10) \div 7)

calculateHandRotation(landmarks) ==
    LET L        == LANDMARKS
        indexMcp == At(landmarks, L.INDEX_MCP)
        pinkyMcp == At(landmarks, L.PINKY_MCP)
    IN atan2(pinkyMcp.y - indexMcp.y, pinkyMcp.x - indexMcp.x)

\* the tracker after update(palmCenter) and the velocity read from it
updateVelocity(vt, landmarks, clock) ==
    LET tracker == update(vt, getPalmCenter(landmarks), Null, clock)
    IN [tracker |-> tracker, velocity |-> getVelocity(tracker)]

calculateTwoHandGestures(landmarks1, landmarks2, prevDistance) ==
    LET palm1    == getPalmCenter(landmarks1)
        palm2    == getPalmCenter(landmarks2)
        dx       == palm2.x - palm1.x
        dy       == palm2.y - palm1.y
        dz       == palm2.z - palm1.z
        distance == Sqrt(dx * dx + dy * dy + dz * dz)
        dist2    == Min(Scale, distance * 2)
    IN [handDistance    |-> dist2,
        handSpread      |-> (dist2 - prevDistance) * 10,
        twoHandRotation |-> atan2(dy, dx)]

\* A variant of gestureChanged that forgets the previous label.
gestureChangedOrRepeated(gesture, prevGesture) == gesture # "none"

\* if (gesture !== prevGesture && gesture !== 'none')
gestureChanged(gesture, prevGesture) == gesture # prevGesture /\ gesture # "none"

\* the four tests detectSpecialGestures makes on the curls
isThumbsUp(curls) ==
    /\ curls.thumb < 400
    /\ curls.index > 700 /\ curls.middle > 700
    /\ curls.ring > 700 /\ curls.pinky > 700

isPeace(curls) ==
    /\ curls.thumb > 500
    /\ curls.index < 300 /\ curls.middle < 300
    /\ curls.ring > 600 /\ curls.pinky > 600

isFist(curls) ==
    /\ curls.thumb > 500
    /\ curls.index > 700 /\ curls.middle > 700
    /\ curls.ring > 700 /\ curls.pinky > 700

\* the open-hand test without the ring and pinky curls
isOpenOfTwo(curls) == curls.index < 300 /\ curls.middle < 300

isOpen(curls) ==
    /\ curls.index < 300 /\ curls.middle < 300
    /\ curls.ring < 400 /\ curls.pinky < 400

\* The label, its confidence and whether onSpecialGesture is due, from the
\* curls of this frame, this.isPinching and this.pinchValue as they stand
\* when detectSpecialGestures runs, and the label before it.
detectSpecialGestures(curls, pinching, pinch, prevGesture) ==
    LET isThumbsUp_ == isThumbsUp(curls)
        isPeace_    == isPeace(curls)
        isFist_     == isFist(curls)
        isOpen_     == isOpen(curls)
        gesture    == IF pinching THEN "pinch"
                      ELSE IF isThumbsUp_ THEN "thumbsUp"
                      ELSE IF isPeace_ THEN "peace"
                      ELSE IF isFist_ THEN "fist"
                      ELSE IF isOpen_ THEN "open"
                      ELSE "none"
        confidence == IF pinching THEN pinch
                      ELSE IF isThumbsUp_ \/ isPeace_ \/ isFist_ THEN 900
                      ELSE IF isOpen_ THEN 800
                      ELSE 0
    IN [gesture |-> gesture, confidence |-> confidence,
        fired |-> gestureChanged(gesture, prevGesture)]

\* resetFilters(): the two filters, the tracker and the velocity afterwards
resetFilters(of, pf, vt) ==
    [opennessFilter |-> resetFilter(of), pinchFilter |-> resetFilter(pf),
     palmVelocityTracker |-> resetTracker(vt), velocity |-> ZeroVelocity]

getGestureData ==
    [openness |-> gestureValue,
     pinch |-> pinchValue,
     isPinching |-> isPinching,
     fingerCurls |-> fingerCurls,
     rotation |-> handRotation,
     velocity |-> velocity,
     isHandDetected |-> isHandDetected,
     twoHandsDetected |-> twoHandsDetected,
     handDistance |-> handDistance,
     handSpread |-> handSpread,
     twoHandRotation |-> twoHandRotation,
     gesture |-> currentGesture,
     gestureConfidence |-> gestureConfidence]

\* The callback slots that hold a handler.  main.js assigns onGestureUpdate,
\* onHandDetected, onHandLost, onPinchStart, onPinchEnd and onSpecialGesture;
\* the two-hand slots are taken as assigned too, so that their edges show.
Registered ==
    {"onGestureUpdate", "onHandDetected", "onHandLost", "onPinchStart", "onPinchEnd",
     "onSpecialGesture", "onTwoHandsDetected", "onTwoHandsLost"}

\* if (this.onX) this.onX(...)
Fire(evs, ev) == IF ev[1] \in Registered THEN Append(evs, ev) ELSE evs

Fired(evs, name) == \E i \in 1..Len(evs) : evs[i][1] = name

\* A variant of pinchEdge that looks at the level, not at the edge.
pinchEdgeOnLevel(evs, pinching, wasPinching) ==
    IF pinching THEN Fire(evs, <<"onPinchStart">>)
    ELSE IF wasPinching THEN Fire(evs, <<"onPinchEnd">>)
    ELSE evs

\* if (isPinching && !wasPinching) onPinchStart
\* else if (!isPinching && wasPinching) onPinchEnd
pinchEdge(evs, pinching, wasPinching) ==
    IF pinching /\ ~wasPinching THEN Fire(evs, <<"onPinchStart">>)
    ELSE IF ~pinching /\ wasPinching THEN Fire(evs, <<"onPinchEnd">>)
    ELSE evs

\* A variant of handEdge that reports the hand on every frame.
handEdgeEveryFrame(evs, wasDetected) == Fire(evs, <<"onHandDetected">>)

\* if (!this.isHandDetected) { this.isHandDetected = true; onHandDetected }
handEdge(evs, wasDetected) ==
    IF ~wasDetected THEN Fire(evs, <<"onHandDetected">>) ELSE evs

\* the latest of the two callbacks of a pair, after the calls in evs
Latest(before, evs, up, down) ==
    IF Fired(evs, up) THEN up ELSE IF Fired(evs, down) THEN down ELSE before

(***************************************************************************)
(* ParticleSystem.setGestureData                                           *)
(***************************************************************************)
setGestureData(gestureData) ==
    /\ psGestureValue' = gestureData.openness
    /\ targetScale' = 300 + (gestureData.openness * 14) \div 10
    /\ targetPinchValue' = gestureData.pinch
    /\ handVelocity' = gestureData.velocity
    /\ targetTurbulence' = Min(Scale, gestureData.velocity.magnitude * 3)
    /\ targetRotation' = gestureData.rotation
    /\ targetExplosionForce' = IF gestureData.isPinching THEN 0 - 300 ELSE 0

(***************************************************************************)
(* Landmark frames handed to onResults                                     *)
(***************************************************************************)
Up    == Pt(0, 0 - 80, 0)
Down  == Pt(0, 80, 0)
Right == Pt(80, 0, 0)

\* a finger as its three joint-to-joint vectors
Straight == <<Up, Up, Up>>          \* joints in one line
Folded   == <<Up, Down, Up>>        \* every joint turned back on the last
Hooked   == <<Up, Right, Down>>     \* right angles at both joints

Pose(thumb, index, middle, ring, pinky, tilt) ==
    [thumb |-> thumb, index |-> index, middle |-> middle, ring |-> ring,
     pinky |-> pinky, tilt |-> tilt]

PoseStraight    == Pose(Straight, Straight, Straight, Straight, Straight, 0)
PoseFolded      == Pose(Folded, Folded, Folded, Folded, Folded, 0)
PoseThumbFolded == Pose(Folded, Straight, Straight, Straight, Straight, 0)
PoseTwoFolded   == Pose(Straight, Folded, Folded, Straight, Straight, 0)
PoseHooked      == Pose(Hooked, Hooked, Hooked, Hooked, Hooked, 70)
PoseThumbOut    == Pose(Straight, Folded, Folded, Folded, Folded, 0)

Poses == {PoseStraight, PoseFolded, PoseThumbFolded, PoseHooked}

\* where the palm is in the image
Origin == Pt(0, 0, 0)
Moved  == Pt(0 - 100, 0, 0)
Beside == Pt(300, 0, 0)

Chain(base, shape) ==
    <<base, Plus(base, shape[1]), Plus(Plus(base, shape[1]), shape[2]),
      Plus(Plus(Plus(base, shape[1]), shape[2]), shape[3])>>

\* The 21 landmarks of a hand in the given pose, its thumb tip next to the
\* index tip (near) or far from it, moved by off.
MakeHand(pose, near, off) ==
    LET mcp(k)    == Plus(Pt(400 + 70 * k, 600 + pose.tilt * k, 0), off)
        index     == Chain(mcp(0), pose.index)
        thumbTip  == Plus(index[4], IF near THEN Pt(10, 0, 0) ELSE Pt(0 - 300, 0, 0))
        thumbSpan == Plus(Plus(pose.thumb[1], pose.thumb[2]), pose.thumb[3])
        thumb     == Chain(Minus(thumbTip, thumbSpan), pose.thumb)
        wrist     == Plus(Pt(500, 900, 0), off)
    IN <<wrist>> \o thumb \o index \o Chain(mcp(1), pose.middle)
               \o Chain(mcp(2), pose.ring) \o Chain(mcp(3), pose.pinky)

\* the hands seen alone
FirstHands ==
    {MakeHand(p, FALSE, Origin) : p \in Poses}
    \cup {MakeHand(PoseStraight, TRUE, Origin), MakeHand(PoseFolded, TRUE, Origin)}
    \cup {MakeHand(PoseTwoFolded, FALSE, Origin), MakeHand(PoseThumbOut, FALSE, Origin),
          MakeHand(PoseFolded, FALSE, Moved), MakeHand(PoseStraight, TRUE, Moved)}

\* the first hands seen together with a second hand, and that second hand
PairedHands == {MakeHand(PoseFolded, FALSE, Origin), MakeHand(PoseStraight, TRUE, Origin)}
SecondHands == {MakeHand(PoseStraight, FALSE, Beside)}

\* a hand entry that stops after the thumb
ShortHand == SubSeq(MakeHand(PoseStraight, FALSE, Origin), 1, 5)

\* all 21 landmarks at one point: the thumb tip on the index tip and the
\* index MCP on the wrist
CollapsedHand == [i \in 1..21 |-> Pt(500, 600, 0)]

MalformedHands == {<<ShortHand>>, <<MakeHand(PoseFolded, FALSE, Origin), ShortHand>>}
DegenerateHands == {<<CollapsedHand>>}

\* a results object without the multiHandLandmarks property
NoLandmarksProperty == [image |-> "frame"]

\* results of the hand tracker: no hand, one hand, two hands, and the
\* malformed and degenerate ones
Results ==
    {NoLandmarksProperty, [multiHandLandmarks |-> <<>>]}
    \cup {[multiHandLandmarks |-> <<h>>] : h \in FirstHands}
    \cup {[multiHandLandmarks |-> <<h, g>>] : h \in PairedHands, g \in SecondHands}
    \cup {[multiHandLandmarks |-> hs] : hs \in MalformedHands \cup DegenerateHands}

\* time between two frames, in milliseconds
FrameIntervals == {100}

(***************************************************************************)
(* GestureDetector.onResults                                               *)
(***************************************************************************)
\* the state the constructors leave
GestureConstructed ==
    /\ now = 0
    /\ frames = 0
    /\ gestureValue = Scale \div 2
    /\ isHandDetected = FALSE
    /\ opennessFilter = OneEuroFilter(Scale, 7, Scale)
    /\ pinchFilter = OneEuroFilter(Scale, 10, Scale)
    /\ palmVelocityTracker = VelocityTracker(8)
    /\ velocity = ZeroVelocity
    /\ fingerCurls = [thumb |-> 0, index |-> 0, middle |-> 0, ring |-> 0, pinky |-> 0]
    /\ pinchValue = 0
    /\ isPinching = FALSE
    /\ handRotation = 0
    /\ currentGesture = "none"
    /\ gestureConfidence = 0
    /\ twoHandsDetected = FALSE
    /\ handDistance = 0
    /\ handSpread = 0
    /\ twoHandRotation = 0
    /\ events = <<>>
    /\ snapshot = Null
    /\ lastPinchEvent = "none"
    /\ lastHandEvent = "none"
    /\ lastTwoHandsEvent = "none"
    /\ raised = FALSE
    /\ lastResults = [constructed |-> TRUE]

ParticleSystemConstructed ==
    /\ psGestureValue = Scale \div 2
    /\ targetScale = Scale
    /\ targetPinchValue = 0
    /\ handVelocity = ZeroVelocity
    /\ targetTurbulence = 0
    /\ targetRotation = 0
    /\ targetExplosionForce = 0

PatternIdle ==
    /\ pgName = "sphere"
    /\ pgCount = 1
    /\ pgGenerator = Undefined
    /\ pgResult = NoResult

\* results.multiHandLandmarks && results.multiHandLandmarks.length > 0
hasHand(results) ==
    /\ "multiHandLandmarks" \in DOMAIN results
    /\ Len(results.multiHandLandmarks) > 0

\* drawHand reads .x of landmarks[0] .. landmarks[20]: a TypeError when one
\* of them is undefined
drawHandRaises(landmarks) == \E i \in 0..20 : i + 1 \notin DOMAIN landmarks

\* The hand branch up to the TypeError of drawHand(landmarks), which comes
\* before any field of the detector is written.
HandBranchRaised ==
    /\ raised' = TRUE
    /\ events' = <<>>
    /\ UNCHANGED <<gestureValue, isHandDetected, opennessFilter, pinchFilter,
                   palmVelocityTracker, velocity, fingerCurls, pinchValue, isPinching,
                   handRotation, currentGesture, gestureConfidence, twoHandsDetected,
                   handDistance, handSpread, twoHandRotation>>

\* if (results.multiHandLandmarks && results.multiHandLandmarks.length > 0) {...}
\* A TypeError of drawHand(landmarks2, 1) ends the call after the first hand
\* was processed.
HandBranch(hands, t) ==
    LET landmarks   == hands[1]
        curls       == calculateFingerCurls(landmarks)
        rawOpenness == calculateHandOpenness(curls)
        rawPinch    == calculatePinchValue(landmarks)
        uv          == updateVelocity(palmVelocityTracker, landmarks, t)
        of          == filter(opennessFilter, rawOpenness, Null, t)
        pf          == filter(pinchFilter, rawPinch, Null, t)
        \* detectSpecialGestures() runs before this.isPinching is updated
        sg          == detectSpecialGestures(curls, isPinching, pf.out, currentGesture)
        wasPinching == isPinching
        pinching    == pf.out > pinchThreshold
        e1 == IF sg.fired
              THEN Fire(<<>>, <<"onSpecialGesture", sg.gesture, sg.confidence>>)
              ELSE <<>>
        e2 == pinchEdge(e1, pinching, wasPinching)
        e3 == handEdge(e2, isHandDetected)
        second == Len(hands) > 1
        secondRaises == second /\ drawHandRaises(hands[2])
        two == calculateTwoHandGestures(landmarks, hands[2], handDistance)
        e4 == IF second
              THEN (IF ~twoHandsDetected THEN Fire(e3, <<"onTwoHandsDetected">>) ELSE e3)
              ELSE (IF twoHandsDetected THEN Fire(e3, <<"onTwoHandsLost">>) ELSE e3)
    IN /\ fingerCurls' = curls
       /\ handRotation' = calculateHandRotation(landmarks)
       /\ palmVelocityTracker' = uv.tracker
       /\ velocity' = uv.velocity
       /\ opennessFilter' = of.f
       /\ pinchFilter' = pf.f
       /\ gestureValue' = of.out
       /\ pinchValue' = pf.out
       /\ currentGesture' = sg.gesture
       /\ gestureConfidence' = sg.confidence
       /\ isPinching' = pinching
       /\ isHandDetected' = TRUE
       /\ raised' = secondRaises
       /\ twoHandsDetected' = IF secondRaises THEN twoHandsDetected ELSE second
       /\ handDistance' = IF secondRaises THEN handDistance
                          ELSE IF second THEN two.handDistance
                          ELSE IF twoHandsDetected THEN 0 ELSE handDistance
       /\ handSpread' = IF secondRaises THEN handSpread
                        ELSE IF second THEN two.handSpread
                        ELSE IF twoHandsDetected THEN 0 ELSE handSpread
       /\ twoHandRotation' = IF second /\ ~secondRaises THEN two.twoHandRotation
                             ELSE twoHandRotation
       /\ events' = IF secondRaises THEN e3 ELSE e4

\* } else { ... }
NoHandBranch(t) ==
    LET lost  == isHandDetected
        reset == resetFilters(opennessFilter, pinchFilter, palmVelocityTracker)
        of0   == IF lost THEN reset.opennessFilter ELSE opennessFilter
        pf0   == IF lost THEN reset.pinchFilter ELSE pinchFilter
        of    == filter(of0, Scale \div 2, Null, t)
        pf    == filter(pf0, 0, Null, t)
    IN /\ raised' = FALSE
       /\ isHandDetected' = FALSE
       /\ twoHandsDetected' = IF lost THEN FALSE ELSE twoHandsDetected
       /\ palmVelocityTracker' = IF lost THEN reset.palmVelocityTracker
                                 ELSE palmVelocityTracker
       /\ velocity' = IF lost THEN reset.velocity ELSE velocity
       /\ events' = IF lost THEN Fire(<<>>, <<"onHandLost">>) ELSE <<>>
       /\ opennessFilter' = of.f
       /\ pinchFilter' = pf.f
       /\ gestureValue' = of.out
       /\ pinchValue' = pf.out
       /\ UNCHANGED <<fingerCurls, isPinching, handRotation, currentGesture,
                      gestureConfidence, handDistance, handSpread, twoHandRotation>>

\* One camera frame: onResults(results), dt milliseconds after the last one,
\* with the onGestureUpdate handler of main.js (ParticleSystem.setGestureData).
onResults(results, dt) ==
    /\ frames < MaxFrames
    /\ frames' = frames + 1
    /\ now' = now + dt
    /\ lastResults' = results
    /\ IF hasHand(results)
       THEN (IF drawHandRaises(results.multiHandLandmarks[1])
             THEN HandBranchRaised
             ELSE HandBranch(results.multiHandLandmarks, now + dt))
       ELSE NoHandBranch(now + dt)
    /\ lastPinchEvent' = Latest(lastPinchEvent, events', "onPinchStart", "onPinchEnd")
    /\ lastHandEvent' = Latest(lastHandEvent, events', "onHandDetected", "onHandLost")
    /\ lastTwoHandsEvent' =
           Latest(lastTwoHandsEvent, events', "onTwoHandsDetected", "onTwoHandsLost")
    /\ IF raised'
       THEN UNCHANGED <<snapshot, psVars>>
       ELSE /\ snapshot' = Some(getGestureData')
            /\ setGestureData(getGestureData')
    /\ UNCHANGED exceptGesture

(***************************************************************************)
(* ParticleSystem: the per-particle buffers and the trails                 *)
(***************************************************************************)
trailSampleRate == 3

DefaultTrailLength == 8

\* Largest value of trailUpdateCounter.
MaxTrailUpdates == 4

\* new Float32Array(length) and what it holds: zeros, the points of a
\* generator, values written since
Float32Array(length, content) == [length |-> length, content |-> content]

\* the buffers createParticles() allocates for particleCount = count
createParticles(count) ==
    LET base == Len(sphere(count).positions)
    IN [basePositions     |-> Float32Array(base, "sphere"),
        targetPositions   |-> Float32Array(base, "sphere"),
        previousPositions |-> Float32Array(base, "sphere"),
        velocities        |-> Float32Array(count * 3, "zero"),
        geometry          |-> [position |-> Float32Array(base, "sphere"),
                               size     |-> Float32Array(count, "random"),
                               alpha    |-> Float32Array(count, "one")]]

\* the position attribute createTrails() allocates
createTrails(count, length) ==
    LET sampledCount     == Floor(count, trailSampleRate)
        segmentsPerTrail == length - 1
        totalSegments    == sampledCount * segmentsPerTrail
    IN Float32Array(totalSegments * 6, "zero")

\* the state after the constructor and init() with particleCount = count
BuffersCreated(count) ==
    LET b == createParticles(count)
    IN /\ particleCount = count
       /\ basePositions = b.basePositions
       /\ targetPositions = b.targetPositions
       /\ previousPositions = b.previousPositions
       /\ velocities = b.velocities
       /\ geometry = b.geometry
       /\ trailsEnabled = FALSE
       /\ trailLength = DefaultTrailLength
       /\ trailGeometry = Null
       /\ trailHistory = <<>>
       /\ trailUpdateCounter = 0

\* generator(count) for the generator getPattern(patternName) returns, as
\* assigned to basePositions, and new Float32Array(basePositions).  What an
\* inherited function returns is not an array and gives an empty copy.
generate(patternName, count) ==
    LET generator == getPattern(patternName)
        generated == Invoke(generator, count)
    IN IF generated.kind = "positions"
       THEN [raised |-> FALSE,
             basePositions   |-> Float32Array(Len(generated.positions), generator.name),
             targetPositions |-> Float32Array(Len(generated.positions), generator.name)]
       ELSE [raised |-> generated.kind = "raised",
             basePositions   |-> [length |-> 0, content |-> "foreign"],
             targetPositions |-> Float32Array(0, "zero")]

\* setPattern(patternName): what it writes in the particle system.  When
\* the generator call raises, the pattern name is already stored.
setPattern(patternName) ==
    /\ lastSetPattern' = Some(patternName)
    /\ IF patternName = psCurrentPattern
       THEN UNCHANGED <<psCurrentPattern, basePositions, targetPositions, velocities>>
       ELSE LET g == generate(patternName, particleCount)
            IN /\ psCurrentPattern' = patternName
               /\ basePositions' = IF g.raised THEN basePositions ELSE g.basePositions
               /\ targetPositions' = IF g.raised THEN targetPositions ELSE g.targetPositions
               /\ velocities' = IF g.raised THEN velocities
                                ELSE [velocities EXCEPT !.content = "zero"]
    /\ UNCHANGED <<particleCount, previousPositions, geometry, trailsEnabled, trailLength,
                   trailGeometry, trailHistory, trailUpdateCounter>>

\* the names setPattern is called with: patterns, and names every object
\* inherits
SetPatternInputs == {"sphere", "cube", "constructor", "__proto__"}

\* onPatternChange(pattern): the UI hands a pattern to the particle system
onPatternChange(pattern) ==
    /\ setPattern(pattern)
    /\ UNCHANGED <<uiCurrentPattern, startPattern, thumbsUps>>
    /\ UNCHANGED exceptPatternChange

setParticleCount(count) ==
    /\ IF count = particleCount
       THEN UNCHANGED pbVars
       ELSE LET b == createParticles(count)
                g == generate(psCurrentPattern, count)
            IN /\ particleCount' = count
               /\ previousPositions' = b.previousPositions
               /\ velocities' = b.velocities
               /\ geometry' = b.geometry
               /\ basePositions' = IF g.raised THEN b.basePositions ELSE g.basePositions
               /\ targetPositions' = IF g.raised THEN b.targetPositions ELSE g.targetPositions
               /\ UNCHANGED <<trailsEnabled, trailLength, trailGeometry, trailHistory,
                              trailUpdateCounter>>
    /\ UNCHANGED exceptBuffers

setTrailsEnabled(enabled) ==
    LET create == enabled /\ trailGeometry = Null
    IN /\ trailsEnabled' = enabled
       /\ trailGeometry' = IF create THEN Some(createTrails(particleCount, trailLength))
                           ELSE trailGeometry
       /\ trailHistory' = IF create \/ ~enabled THEN <<>> ELSE trailHistory
       /\ UNCHANGED <<particleCount, basePositions, targetPositions, previousPositions,
                      velocities, geometry, trailLength, trailUpdateCounter>>
       /\ UNCHANGED exceptBuffers

\* the lengths the trail-length slider and callers hand to setTrailLength
TrailLengths == {1, 25}

\* setTrailLength(length): the length is clamped to 2..20 and the trails
\* are created again only while trails are enabled.
setTrailLength(length) ==
    LET clamped == Max(2, Min(20, length))
    IN /\ trailLength' = clamped
       /\ trailGeometry' = IF trailsEnabled THEN Some(createTrails(particleCount, clamped))
                           ELSE trailGeometry
       /\ trailHistory' = IF trailsEnabled THEN <<>> ELSE trailHistory
       /\ UNCHANGED <<particleCount, basePositions, targetPositions, previousPositions,
                      velocities, geometry, trailsEnabled, trailUpdateCounter>>
       /\ UNCHANGED exceptBuffers

\* The index one past the last element the segment loop of updateTrails()
\* writes in the trail position array: six numbers for every sampled
\* particle and every pair of consecutive snapshots.
trailWriteEnd(count, history) ==
    IF Len(history) < 2 THEN 0
    ELSE Floor(count, trailSampleRate) * (Len(history) - 1) * 6

\* updateTrails(): the counter and the history afterwards.  The writes to
\* the trail geometry leave its length as it is.
updateTrails(counter, history) ==
    IF ~trailsEnabled \/ trailGeometry = Null
    THEN [counter |-> counter, history |-> history]
    ELSE LET c            == counter + 1
             sampledCount == Floor(particleCount, trailSampleRate)
             sampled      == Float32Array(sampledCount * 3, "positions")
             pushed       == <<sampled>> \o history
         IN [counter |-> c,
             history |-> IF c % 2 = 0
                         THEN SubSeq(pushed, 1, Min(Len(pushed), trailLength))
                         ELSE history]

\* One animate() call: updatePositions writes the velocities and the
\* positions, then updateTrails runs when trails are enabled.
animate ==
    LET ut == IF trailsEnabled THEN updateTrails(trailUpdateCounter, trailHistory)
              ELSE [counter |-> trailUpdateCounter, history |-> trailHistory]
    IN /\ trailUpdateCounter < MaxTrailUpdates
       /\ velocities' = [velocities EXCEPT !.content = "integrated"]
       /\ geometry' = [geometry EXCEPT !.position.content = "integrated"]
       /\ previousPositions' = IF trailsEnabled
                               THEN [previousPositions EXCEPT !.content = "integrated"]
                               ELSE previousPositions
       /\ trailUpdateCounter' = ut.counter
       /\ trailHistory' = ut.history
       /\ UNCHANGED <<particleCount, basePositions, targetPositions, trailsEnabled,
                      trailLength, trailGeometry>>
       /\ UNCHANGED exceptBuffers

\* the counts the particle system is created with and set to
ParticleCounts == {1, 6, MaxCount}

(***************************************************************************)
(* ParticleSystem.updatePositions: one coordinate of one particle          *)
(***************************************************************************)
\* Largest number of updatePositions calls.
MaxTicks == 10

\* const damping = 0.95
damping == 950

\* this.baseMorphSpeed = 0.06
baseMorphSpeed == 60

\* a * b of two fixed-point numbers, rounded to the nearest unit
Times(a, b) == (2 * a * b + Scale) \div (2 * Scale)

\* The velocity and the position of one coordinate after the loop body:
\*   velocity = (velocity + morph + explosion + turb + audioMove) * damping
\*   position += velocity, then the idle offset
updateParticle(current, speed, target, morphForce, explosion, turb, audioMove, idle) ==
    LET morph == Times(target - current, morphForce)
        v     == Times(speed + morph + explosion + turb + audioMove, damping)
    IN [velocity |-> v, position |-> current + v + idle]

\* a particle on its target, as createParticles leaves it
ParticleAtRest ==
    /\ currentX = 0
    /\ velocityX = 0
    /\ targetX = 0
    /\ morphSpeed = baseMorphSpeed
    /\ ticks = 0
    /\ distanceX = 0
    /\ distanceBefore = 0

\* morphSpeed = baseMorphSpeed * multiplier for the multipliers of the
\* presets, and two larger forces below 1
MorphSpeeds == {Times(baseMorphSpeed, m) : m \in {300, 1000, 2000}} \cup {500, 900}

\* where the particle starts and where its target is, in pattern units
StartPositions == {0, 10 * Scale}
TargetPositions == {30 * Scale, 0 - 20 * Scale}

\* One updatePositions call with turbulence, explosionForce, audioInfluence
\* and idleAmplitude all 0 and the target constant.
updatePositions ==
    LET next == updateParticle(currentX, velocityX, targetX, morphSpeed, 0, 0, 0, 0)
    IN /\ ticks < MaxTicks
       /\ ticks' = ticks + 1
       /\ velocityX' = next.velocity
       /\ currentX' = next.position
       /\ distanceBefore' = distanceX
       /\ distanceX' = Abs(next.position - targetX)
       /\ UNCHANGED <<targetX, morphSpeed>>
       /\ UNCHANGED exceptUpdate

(***************************************************************************)
(* Specification of a generator call: pick a name and a count, resolve the  *)
(* name, call what was resolved.                                           *)
(***************************************************************************)
PatternInputs == getPatternNames \cup ObjectPrototypeKeys \cup UnknownNames

\* const generator = PatternGenerator.getPattern(patternName);
Resolve ==
    /\ pgGenerator = Undefined
    /\ pgGenerator' = getPattern(pgName)
    /\ UNCHANGED <<pgName, pgCount, pgResult, exceptPattern>>

\* this.basePositions = generator(this.particleCount);
Generate ==
    /\ pgGenerator # Undefined
    /\ pgResult = NoResult
    /\ pgResult' = Invoke(pgGenerator, pgCount)
    /\ UNCHANGED <<pgName, pgCount, pgGenerator, exceptPattern>>

\* the next call, with another name and count
NextCall ==
    /\ pgResult # NoResult
    /\ pgName' \in PatternInputs
    /\ pgCount' \in 1..MaxCount
    /\ pgGenerator' = Undefined
    /\ pgResult' = NoResult
    /\ UNCHANGED exceptPattern

(***************************************************************************)
(* A OneEuroFilter called on its own                                       *)
(***************************************************************************)
\* Largest number of filter calls.
MaxCalls == 4

\* performance.now() when the first call is made, and between two calls
ClockStart == Scale
ClockSteps == {100}

\* the coefficients the detector constructs its two filters with
Coefficients == {<<Scale, 7, Scale>>, <<Scale, 10, Scale>>}

\* the values and the timestamps handed to filter(x, timestamp)
FilterInputs == {0, Scale}
Timestamps == {Null} \cup {Some(t) : t \in {0, 50, 150}}

\* a filter just constructed, not called yet
FilterConstructed(k) ==
    /\ ftFilter = OneEuroFilter(k[1], k[2], k[3])
    /\ ftClock = ClockStart
    /\ ftCall = [op |-> "new"]
    /\ ftOut = Null
    /\ ftCalls = 0
    /\ ftResetFrom = Null
    /\ ftTwin = Null
    /\ ftTwinOut = Null

FilterIdle == FilterConstructed(<<Scale, 7, Scale>>)

\* filter(x, timestamp), step milliseconds after the call before; the call
\* is recorded with the time it is made at (its timestamp, or the clock when
\* it has none) and with whether these times have been strictly increasing
\* since the filter was seeded
FilterCall(x, timestamp, step) ==
    LET clock == ftClock + step
        given == IF timestamp = Null THEN clock ELSE timestamp[1]
        rising == IF ftFilter.xPrev = Null THEN TRUE
                  ELSE ftCall.rising /\ given > ftCall.given
        r     == filter(ftFilter, x, timestamp, clock)
        rt    == filter(ftTwin[1], x, timestamp, clock)
    IN /\ ftCalls < MaxCalls
       /\ ftCalls' = ftCalls + 1
       /\ ftClock' = clock
       /\ ftCall' = [op |-> "filter", x |-> x, timestamp |-> timestamp,
                      given |-> given, rising |-> rising]
       /\ ftFilter' = r.f
       /\ ftOut' = Some(r.out)
       /\ ftTwin' = IF ftTwin = Null THEN Null ELSE Some(rt.f)
       /\ ftTwinOut' = IF ftTwin = Null THEN Null ELSE Some(rt.out)
       /\ UNCHANGED ftResetFrom
       /\ UNCHANGED exceptFilter

\* reset() on a filter that holds a value
FilterReset ==
    /\ ftFilter.xPrev # Null
    /\ ftCalls < MaxCalls
    /\ ftCall' = [op |-> "reset"]
    /\ ftResetFrom' = Some(ftFilter)
    /\ ftFilter' = resetFilter(ftFilter)
    /\ ftTwin' = Some(OneEuroFilter(ftFilter.minCutoff, ftFilter.beta, ftFilter.dCutoff))
    /\ ftOut' = Null
    /\ ftTwinOut' = Null
    /\ UNCHANGED <<ftClock, ftCalls>>
    /\ UNCHANGED exceptFilter

(***************************************************************************)
(* A VelocityTracker called on its own                                     *)
(***************************************************************************)
\* Largest number of update calls.
MaxUpdates == 3

\* the window lengths a tracker is constructed with: a short one, and the
\* one the detector uses
HistoryLengths == {2, 8}

\* the positions and the timestamps handed to update(position, timestamp)
TrackedPositions == {Pt(0, 0, 0), Pt(500, 200, 0), Pt(100, 900, 0 - 100)}
UpdateTimestamps == {Null} \cup {Some(t) : t \in {0, 100, 200}}

\* a tracker just constructed
TrackerConstructed(historyLength) ==
    /\ trTracker = VelocityTracker(historyLength)
    /\ trClock = ClockStart
    /\ trSamples = <<>>
    /\ trUpdates = 0

TrackerIdle == TrackerConstructed(8)

\* update(position, timestamp), step milliseconds after the call before
TrackerUpdate(position, timestamp, step) ==
    /\ trUpdates < MaxUpdates
    /\ trUpdates' = trUpdates + 1
    /\ trClock' = trClock + step
    /\ trTracker' = update(trTracker, position, timestamp, trClock')
    /\ trSamples' = Append(trSamples, [position |-> position, timestamp |-> timestamp,
                                       at |-> trClock'])
    /\ UNCHANGED exceptTracker

\* reset() on a tracker that holds samples
TrackerReset ==
    /\ trTracker.positions # <<>>
    /\ trUpdates < MaxUpdates
    /\ trTracker' = resetTracker(trTracker)
    /\ trSamples' = <<>>
    /\ UNCHANGED <<trClock, trUpdates>>
    /\ UNCHANGED exceptTracker

(***************************************************************************)
(* calculateFingerCurl called on its own                                   *)
(***************************************************************************)
\* where the finger starts, and the bones from one joint to the next; the
\* bones make angles of 0, 45, 60, 90, 120, 135 and 180 degrees with each
\* other, and a bone of length 0 is among them
Knuckles == {Pt(0, 0, 0), Pt(4, 0 - 2, 2)}
Bones == {Pt(2, 0, 0), Pt(0, 2, 0), Pt(2, 2, 0), Pt(0, 2, 2),
          Pt(0 - 2, 0, 0), Pt(0 - 2, 2, 0), Pt(0, 0, 0)}

Finger(mcp, b1, b2, b3) ==
    <<mcp, Plus(mcp, b1), Plus(Plus(mcp, b1), b2), Plus(Plus(Plus(mcp, b1), b2), b3)>>

\* the vectors the joints are translated by, and the factors num / den they
\* are scaled by
Translations == {Pt(2, 0, 0), Pt(0 - 6, 4, 2), Pt(0, 0, 0 - 4)}
Factors == {<<2, 1>>, <<3, 1>>, <<0 - 1, 1>>, <<1, 2>>, <<0 - 3, 2>>}

Translated(joints, d) == [i \in 1..4 |-> Plus(joints[i], d)]
Scaled(joints, k) ==
    [i \in 1..4 |-> Pt((joints[i].x * k[1]) \div k[2],
                       (joints[i].y * k[1]) \div k[2],
                       (joints[i].z * k[1]) \div k[2])]

CurlOf(joints) == calculateFingerCurl(joints[1], joints[2], joints[3], joints[4])

CurlInputs(joints) ==
    /\ fcJoints = joints
    /\ fcCurl = Null
    /\ fcMoved = Null
    /\ fcMovedCurl = Null

CurlIdle == CurlInputs(Finger(Pt(0, 0, 0), Pt(2, 0, 0), Pt(2, 0, 0), Pt(2, 0, 0)))

\* calculateFingerCurl on the joints and on the joints translated by d
CurlTranslated(d) ==
    /\ fcMoved = Null
    /\ fcCurl' = Some(CurlOf(fcJoints))
    /\ fcMoved' = [by |-> "translation", d |-> d, joints |-> Translated(fcJoints, d)]
    /\ fcMovedCurl' = Some(CurlOf(Translated(fcJoints, d)))
    /\ UNCHANGED fcJoints
    /\ UNCHANGED exceptCurl

\* calculateFingerCurl on the joints and on the joints scaled by k
CurlScaled(k) ==
    /\ fcMoved = Null
    /\ fcCurl' = Some(CurlOf(fcJoints))
    /\ fcMoved' = [by |-> "scaling", k |-> k, joints |-> Scaled(fcJoints, k)]
    /\ fcMovedCurl' = Some(CurlOf(Scaled(fcJoints, k)))
    /\ UNCHANGED fcJoints
    /\ UNCHANGED exceptCurl

(***************************************************************************)
(* ParticleSystem: the LOD system                                          *)
(***************************************************************************)
\* Largest number of animation frames of the LOD system.
MaxLodTicks == 6

targetFPS == 55 * Scale
fpsWindow == 30

\* milliseconds between two animation frames: 100, 62.5, 50 and 30 frames
\* per second
FrameDeltas == {10, 16, 20, 33}

Sum(seq) == LET RECURSIVE S(_)
                S(i) == IF i = 0 THEN 0 ELSE seq[i] + S(i - 1)
            IN S(Len(seq))

\* the constructor's values
LODConstructed ==
    /\ currentLOD = Scale
    /\ fpsHistory = <<>>
    /\ currentFPS = 60 * Scale
    /\ lodTicks = 0
    /\ updatedCount = Null

\* updateLOD, delta milliseconds after the frame before: the new history,
\* average and LOD fraction
updateLOD(delta) ==
    LET fps     == (1000 * Scale) \div delta
        pushed  == Append(fpsHistory, fps)
        history == IF Len(pushed) > fpsWindow THEN Tail(pushed) ELSE pushed
        average == Sum(history) \div Len(history)
    IN [fpsHistory |-> history,
        currentFPS |-> average,
        currentLOD |-> IF average < targetFPS - 5 * Scale /\ currentLOD > Scale \div 2
                       THEN Max(Scale \div 2, currentLOD - 50)
                       ELSE IF average > targetFPS + 5 * Scale /\ currentLOD < Scale
                       THEN Min(Scale, currentLOD + 20)
                       ELSE currentLOD]

\* the particles the loop of updatePositions moves
updatedParticles(count, lod) == count

\* one animation frame: updateLOD, then updatePositions
animateLOD(delta) ==
    /\ lodTicks < MaxLodTicks
    /\ lodTicks' = lodTicks + 1
    /\ fpsHistory' = updateLOD(delta).fpsHistory
    /\ currentFPS' = updateLOD(delta).currentFPS
    /\ currentLOD' = updateLOD(delta).currentLOD
    /\ updatedCount' = Some(updatedParticles(particleCount, currentLOD'))
    /\ UNCHANGED exceptLOD

(***************************************************************************)
(* App: init and handleInitError                                           *)
(***************************************************************************)
\* An error message is the set of the fragments below that it contains;
\* "DevicesNotFoundError" contains "NotFoundError".
Fragments == {"Permission denied", "NotAllowedError", "NotFoundError",
              "DevicesNotFoundError", "NotReadableError"}
Messages == {m \in SUBSET Fragments : "DevicesNotFoundError" \in m => "NotFoundError" \in m}
includes(message, fragment) == fragment \in message

\* what may be thrown: errors with the messages above
Errors == {[message |-> m] : m \in Messages}

\* milliseconds until camera.start() settles
CameraDelays == {100, 1500, 3000}

hideLoadingDelay == 500
fallbackDelay == 2000

AppConstructed ==
    /\ appStep = "constructed"
    /\ isInitialized = FALSE
    /\ particleSystemMade = FALSE
    /\ mouseControlEnabled = FALSE
    /\ reports = <<>>
    /\ callbacksWired = 0
    /\ loadingShown = FALSE
    /\ appClock = 0
    /\ appTimers = {}
    /\ failedAt = Null

\* the loading message and toast handleInitError picks for an error, with
\* the error that init's catch wrote to the console
errorReport(error) ==
    IF includes(error.message, "Permission denied") \/ includes(error.message, "NotAllowedError")
    THEN [message |-> "Camera access denied",
          toast |-> "Camera access denied. Using mouse control instead.",
          logged |-> error]
    ELSE IF includes(error.message, "NotFoundError") \/ includes(error.message, "DevicesNotFoundError")
    THEN [message |-> "No camera found",
          toast |-> "No camera found. Using mouse control instead.",
          logged |-> error]
    ELSE [message |-> "Error initializing camera",
          toast |-> "Could not start camera. Using mouse control instead.",
          logged |-> error]

\* a handler that tells the user and waits, but leaves the mouse alone
handleInitErrorMouseOff(error) ==
    /\ reports' = Append(reports, errorReport(error))
    /\ UNCHANGED mouseControlEnabled
    /\ appTimers' = appTimers \cup {[due |-> appClock' + fallbackDelay, run |-> "fallback"]}
    /\ failedAt' = Some(appClock')
    /\ appStep' = "fallback"
    /\ UNCHANGED <<isInitialized, callbacksWired>>

handleInitError(error) ==
    /\ reports' = Append(reports, errorReport(error))
    /\ mouseControlEnabled' = IF particleSystemMade' THEN TRUE ELSE mouseControlEnabled
    /\ appTimers' = appTimers \cup {[due |-> appClock' + fallbackDelay, run |-> "fallback"]}
    /\ failedAt' = Some(appClock')
    /\ appStep' = "fallback"
    /\ UNCHANGED <<isInitialized, callbacksWired>>

\* init() up to its await: the particle system is constructed, or its
\* constructor throws
init(thrown) ==
    /\ appStep = "constructed"
    /\ loadingShown' = TRUE
    /\ UNCHANGED appClock
    /\ IF thrown = Null
       THEN /\ particleSystemMade' = TRUE
            /\ appStep' = "awaitingCamera"
            /\ UNCHANGED <<isInitialized, mouseControlEnabled, reports, callbacksWired,
                           appTimers, failedAt>>
       ELSE /\ particleSystemMade' = FALSE
            /\ handleInitError(thrown[1])
    /\ UNCHANGED exceptApp

\* camera.start() settles after delay milliseconds: init() goes on, or the
\* rejection is caught
cameraSettles(rejected, delay) ==
    /\ appStep = "awaitingCamera"
    /\ appClock' = appClock + delay
    /\ UNCHANGED <<particleSystemMade, loadingShown>>
    /\ IF rejected = Null
       THEN /\ callbacksWired' = callbacksWired + 1
            /\ appTimers' = appTimers \cup
                   {[due |-> appClock' + hideLoadingDelay, run |-> "hideLoading"]}
            /\ isInitialized' = TRUE
            /\ appStep' = "ready"
            /\ UNCHANGED <<mouseControlEnabled, reports, failedAt>>
       ELSE handleInitError(rejected[1])
    /\ UNCHANGED exceptApp

\* the earliest pending setTimeout callback runs
timerFires ==
    /\ appTimers # {}
    /\ LET timer == CHOOSE t \in appTimers : \A u \in appTimers : t.due <= u.due
       IN /\ appTimers' = appTimers \ {timer}
          /\ appClock' = timer.due
          /\ loadingShown' = FALSE
          /\ IF timer.run = "fallback"
             THEN /\ callbacksWired' = callbacksWired + 1
                  /\ isInitialized' = TRUE
             ELSE UNCHANGED <<callbacksWired, isInitialized>>
    /\ UNCHANGED <<appStep, particleSystemMade, mouseControlEnabled, reports, failedAt>>
    /\ UNCHANGED exceptApp

(***************************************************************************)
(* ParticleSystem: initAudio and stopAudio, driven by the audio toggle     *)
(***************************************************************************)
\* Largest number of initAudio calls.
MaxAudioCalls == 3

AudioConstructed ==
    /\ audioToggle = FALSE
    /\ audioContext = Null
    /\ audioEnabled = FALSE
    /\ analyser = Null
    /\ openContexts = {}
    /\ liveStreams = {}
    /\ pendingAudio = {}
    /\ audioCalls = 0
    /\ lastAudio = Null

\* the toggle is checked: onAudioToggle(true) runs initAudio up to its
\* await.  The call, its AudioContext and its stream carry the call's number.
audioToggleOn ==
    /\ ~audioToggle
    /\ audioCalls < MaxAudioCalls
    /\ audioToggle' = TRUE
    /\ audioCalls' = audioCalls + 1
    /\ openContexts' = openContexts \cup {audioCalls'}
    /\ audioContext' = Some(audioCalls')
    /\ pendingAudio' = pendingAudio \cup {audioCalls'}
    /\ UNCHANGED <<audioEnabled, analyser, liveStreams, lastAudio>>
    /\ UNCHANGED exceptAudio

stopAudio ==
    /\ openContexts' = IF audioContext = Null THEN openContexts
                       ELSE openContexts \ {audioContext[1]}
    /\ audioContext' = Null
    /\ audioEnabled' = FALSE
    /\ analyser' = Null
    /\ UNCHANGED liveStreams

\* the toggle is unchecked: onAudioToggle(false) runs stopAudio
audioToggleOff ==
    /\ audioToggle
    /\ audioToggle' = FALSE
    /\ stopAudio
    /\ UNCHANGED <<pendingAudio, audioCalls, lastAudio>>
    /\ UNCHANGED exceptAudio

\* getUserMedia of a pending call resolves with a stream and initAudio
\* goes on: createMediaStreamSource on this.audioContext raises a TypeError
\* when that is null, which the catch turns into false
getUserMediaResolves(call) ==
    /\ call \in pendingAudio
    /\ pendingAudio' = pendingAudio \ {call}
    /\ liveStreams' = liveStreams \cup {call}
    /\ IF audioContext = Null
       THEN /\ lastAudio' = Some([call |-> call, success |-> FALSE])
            /\ UNCHANGED <<analyser, audioEnabled>>
       ELSE /\ analyser' = audioContext
            /\ audioEnabled' = TRUE
            /\ lastAudio' = Some([call |-> call, success |-> TRUE])
    /\ UNCHANGED <<audioToggle, audioContext, openContexts, audioCalls>>
    /\ UNCHANGED exceptAudio

\* getUserMedia of a pending call rejects: the catch returns false
getUserMediaRejects(call) ==
    /\ call \in pendingAudio
    /\ pendingAudio' = pendingAudio \ {call}
    /\ lastAudio' = Some([call |-> call, success |-> FALSE])
    /\ UNCHANGED <<audioToggle, audioContext, audioEnabled, analyser, openContexts,
                   liveStreams, audioCalls>>
    /\ UNCHANGED exceptAudio

(***************************************************************************)
(* App.handleSpecialGesture('thumbsUp') and UIController.selectPattern     *)
(***************************************************************************)
\* Largest number of thumbsUp events in a row.
MaxThumbsUps == 12

\* the list handleSpecialGesture cycles through
patterns == <<"sphere", "cube", "heart", "galaxy", "dna", "torus", "star", "wave",
              "pyramid", "infinity", "firework", "tornado">>

\* Array.prototype.indexOf, counting from 0; -1 when absent
indexOf(array, value) ==
    IF \E i \in 1..Len(array) : array[i] = value
    THEN (CHOOSE i \in 1..Len(array) :
             array[i] = value /\ \A j \in 1..(i - 1) : array[j] # value) - 1
    ELSE 0 - 1

\* UI and particle system showing pattern p, no thumbsUp event yet
PatternSelected(p) ==
    /\ uiCurrentPattern = p
    /\ psCurrentPattern = p
    /\ startPattern = p
    /\ thumbsUps = 0
    /\ lastSetPattern = Null

\* selectPattern(pattern), with onPatternChange wired to setPattern
selectPattern(pattern) ==
    IF pattern = uiCurrentPattern
    THEN UNCHANGED <<uiCurrentPattern, psCurrentPattern, lastSetPattern, pbVars>>
    ELSE /\ uiCurrentPattern' = pattern
         /\ setPattern(pattern)

\* the case 'thumbsUp' of handleSpecialGesture
thumbsUp ==
    /\ thumbsUps < MaxThumbsUps
    /\ thumbsUps' = thumbsUps + 1
    /\ LET currentIndex == indexOf(patterns, uiCurrentPattern)
           nextIndex    == (currentIndex + 1) % Len(patterns)
       IN selectPattern(patterns[nextIndex + 1])
    /\ UNCHANGED startPattern
    /\ UNCHANGED exceptPatternChange

\* loadPreset of a preset with this pattern (the names of the pattern
\* generators), before any thumbsUp event
loadPresetPattern(pattern) ==
    /\ thumbsUps = 0
    /\ selectPattern(pattern)
    /\ startPattern' = pattern
    /\ UNCHANGED thumbsUps
    /\ UNCHANGED exceptPatternChange

(***************************************************************************)
(* UIController presets: getCurrentSettings, saveCustomPreset, loadPreset  *)
(***************************************************************************)
\* Largest number of user operations on the controls and presets.
MaxPresetOps == 4

\* the sliders loadPreset formats with toFixed
SliderFields == {"particleSize", "glowIntensity", "rotationSpeed", "morphSpeed",
                 "idleAmplitude"}

\* the fields of a preset: the keys getCurrentSettings writes
PresetFields == {"pattern", "color", "particleCount", "connections", "autoRotate"}
                    \cup SliderFields

\* the fields held in controls (the pattern is UIController.currentPattern)
ControlFields == PresetFields \ {"pattern"}

\* the values the controls take
Colors == {"#00d4ff", "#ff006e"}
SliderValues == {Scale, 2 * Scale}
PresetCounts == {6, MaxCount}
PresetPatterns == {"sphere", "cube"}

\* what a range input holds after it is assigned a value that is no number
SliderDefault == 0 - 1

\* the controls and the particle system after init()
PresetsConstructed ==
    /\ controls = [f \in ControlFields |->
                     CASE f = "color" -> "#00d4ff"
                       [] f = "particleCount" -> MaxCount
                       [] f = "connections" -> FALSE
                       [] f = "autoRotate" -> TRUE
                       [] OTHER -> Scale]
    /\ psSettings = [f \in ControlFields \ {"particleCount"} |->
                     CASE f = "color" -> "#00d4ff"
                       [] f = "connections" -> FALSE
                       [] f = "autoRotate" -> TRUE
                       [] OTHER -> Scale]
    /\ countTimeout = Null
    /\ customPresets = <<>>
    /\ savedFrom = <<>>
    /\ lastLoad = Null
    /\ presetOps = 0
    /\ storedPresets = Null
    /\ toast = Null

\* the value a control shows for a field, and the particle system's value
Control(f) == IF f = "pattern" THEN uiCurrentPattern ELSE controls[f]
Setting(f) ==
    CASE f = "pattern" -> psCurrentPattern
      [] f = "particleCount" -> particleCount
      [] OTHER -> psSettings[f]

\* a || b for booleans
Or(a, b) == IF a THEN a ELSE b

\* getCurrentSettings(); a preset holds Some(value) or Null (JSON null) for
\* each key it has
getCurrentSettings ==
    [f \in PresetFields |->
        CASE f = "pattern" -> Some(uiCurrentPattern)
          [] f = "connections" -> Some(Or(controls.connections, FALSE))
          [] f = "autoRotate" -> Some(Or(controls.autoRotate, TRUE))
          [] OTHER -> Some(controls[f])]

\* preset[f] !== undefined, and preset[f] being truthy
Defined(preset, f) == f \in DOMAIN preset
TruthyField(preset, f) == f \in DOMAIN preset /\ preset[f] # Null

\* the order in which loadPreset reads the fields it applies
loadOrder == <<"pattern", "color", "particleCount", "particleSize", "glowIntensity",
               "rotationSpeed", "morphSpeed", "idleAmplitude", "connections">>

\* one if-statement of loadPreset, on the controls and callbacks so far
loadField(acc, preset, f) ==
    IF acc.raised THEN acc
    ELSE CASE f = "pattern" ->
                IF TruthyField(preset, f)
                THEN IF preset[f][1] # acc.pattern
                     THEN [acc EXCEPT !.pattern = preset[f][1],
                                      !.callbacks = Append(@, <<f, preset[f][1]>>)]
                     ELSE acc
                ELSE acc
           [] f = "color" ->
                IF TruthyField(preset, f)
                THEN [acc EXCEPT !.controls[f] = preset[f][1],
                                 !.callbacks = Append(@, <<f, preset[f][1]>>)]
                ELSE acc
           [] f = "connections" ->
                IF Defined(preset, f)
                THEN [acc EXCEPT !.controls[f] = preset[f][1],
                                 !.callbacks = Append(@, <<f, preset[f][1]>>)]
                ELSE acc
           [] OTHER ->
                \* slider.value = v; v.toFixed(1) or v.toLocaleString(); callback
                IF ~Defined(preset, f) THEN acc
                ELSE IF preset[f] = Null
                THEN [acc EXCEPT !.controls[f] = SliderDefault, !.raised = TRUE]
                ELSE [acc EXCEPT !.controls[f] = preset[f][1],
                                 !.callbacks = Append(@, <<f, preset[f][1]>>)]

RECURSIVE loadFields(_, _, _)
loadFields(acc, preset, k) ==
    IF k > Len(loadOrder) THEN acc
    ELSE loadFields(loadField(acc, preset, loadOrder[k]), preset, k + 1)

\* how often the callback of a field was invoked, and its last argument
Invocations(callbacks, f) == Cardinality({i \in 1..Len(callbacks) : callbacks[i][1] = f})
LastArg(callbacks, f) ==
    callbacks[CHOOSE i \in 1..Len(callbacks) :
                 /\ callbacks[i][1] = f
                 /\ \A j \in (i + 1)..Len(callbacks) : callbacks[j][1] # f][2]

\* the state every handler of the UI leaves alone
exceptPresetRest == <<startPattern, thumbsUps>>

\* loadPreset(preset), with the callbacks setupUICallbacks wires: the
\* pattern goes to setPattern at once, the count to the debounce timer
loadPreset(preset, from) ==
    LET start == [controls |-> controls, pattern |-> uiCurrentPattern,
                  callbacks |-> <<>>, raised |-> FALSE]
        done  == loadFields(start, preset, 1)
    IN /\ controls' = done.controls
       /\ IF done.pattern # uiCurrentPattern
          THEN selectPattern(done.pattern)
          ELSE UNCHANGED <<uiCurrentPattern, psCurrentPattern, lastSetPattern, pbVars>>
       /\ psSettings' = [f \in DOMAIN psSettings |->
                            IF Invocations(done.callbacks, f) > 0
                            THEN LastArg(done.callbacks, f) ELSE psSettings[f]]
       /\ countTimeout' = IF Invocations(done.callbacks, "particleCount") > 0
                          THEN Some(LastArg(done.callbacks, "particleCount"))
                          ELSE countTimeout
       /\ lastLoad' = Some([preset |-> preset, from |-> from,
                            controlsBefore |-> [f \in PresetFields |-> Control(f)],
                            settingsBefore |-> [f \in PresetFields |-> Setting(f)],
                            callbacks |-> done.callbacks,
                            raised |-> done.raised])

\* the user moves one control: the input and change listeners and setColor
controlInput(f, value) ==
    /\ presetOps < MaxPresetOps
    /\ presetOps' = presetOps + 1
    /\ controls' = [controls EXCEPT ![f] = value]
    /\ IF f = "particleCount"
       THEN countTimeout' = Some(value) /\ UNCHANGED psSettings
       ELSE psSettings' = [psSettings EXCEPT ![f] = value] /\ UNCHANGED countTimeout
    /\ lastLoad' = Null
    /\ toast' = Null
    /\ UNCHANGED <<customPresets, savedFrom, storedPresets, pbVars, cyVars>>
    /\ UNCHANGED exceptPreset

\* a click on a pattern button
patternClick(pattern) ==
    /\ presetOps < MaxPresetOps
    /\ presetOps' = presetOps + 1
    /\ selectPattern(pattern)
    /\ lastLoad' = Null
    /\ toast' = Null
    /\ UNCHANGED <<controls, psSettings, countTimeout, customPresets, savedFrom, storedPresets>>
    /\ UNCHANGED exceptPresetRest
    /\ UNCHANGED exceptPreset

\* the debounce timer of onParticleCountChange fires:
\* setParticleCount(count), then setPattern(getCurrentPattern())
countTimeoutFires ==
    /\ countTimeout # Null
    /\ LET count   == countTimeout[1]
           resized == count # particleCount
           b       == createParticles(count)
           g       == generate(psCurrentPattern, count)
           switch  == uiCurrentPattern # psCurrentPattern
           s       == generate(uiCurrentPattern, count)
           base    == IF ~resized THEN basePositions
                      ELSE IF g.raised THEN b.basePositions ELSE g.basePositions
           target  == IF ~resized THEN targetPositions
                      ELSE IF g.raised THEN b.targetPositions ELSE g.targetPositions
           vel     == IF resized THEN b.velocities ELSE velocities
       IN /\ particleCount' = count
          /\ previousPositions' = IF resized THEN b.previousPositions ELSE previousPositions
          /\ geometry' = IF resized THEN b.geometry ELSE geometry
          /\ psCurrentPattern' = uiCurrentPattern
          /\ lastSetPattern' = Some(uiCurrentPattern)
          /\ basePositions' = IF switch /\ ~s.raised THEN s.basePositions ELSE base
          /\ targetPositions' = IF switch /\ ~s.raised THEN s.targetPositions ELSE target
          /\ velocities' = IF switch /\ ~s.raised THEN [vel EXCEPT !.content = "zero"] ELSE vel
    /\ countTimeout' = Null
    /\ UNCHANGED <<trailsEnabled, trailLength, trailGeometry, trailHistory, trailUpdateCounter>>
    /\ toast' = Null
    /\ UNCHANGED <<controls, psSettings, customPresets, savedFrom, storedPresets, lastLoad, presetOps>>
    /\ UNCHANGED <<uiCurrentPattern, startPattern, thumbsUps>>
    /\ UNCHANGED exceptPreset

\* Largest number of custom presets.
MaxPresets == 2

\* A null entry of a parsed presets array.
JSONnull == [null |-> TRUE]

\* JSON.stringify(this.customPresets): every entry is written with the
\* fields it has (strings, finite numbers, booleans and null), a null
\* entry as null.
JSONstringify(presets) ==
    [i \in 1..Len(presets) |->
        IF presets[i] = JSONnull THEN JSONnull
        ELSE [f \in DOMAIN presets[i] |-> presets[i][f]]]

\* renderCustomPresets(): the items appended to the list before
\* `${preset.name}` raises a TypeError on a null entry
renderedItems(presets) ==
    Cardinality({i \in 1..Len(presets) : \A j \in 1..i : presets[j] # JSONnull})

\* renderCustomPresets() returns without raising
renders(presets) == renderedItems(presets) = Len(presets)

\* saveCustomPreset() with a name entered (the name and timestamp are left out)
saveCustomPreset ==
    LET pushed == Append(customPresets, getCurrentSettings)
    IN /\ presetOps < MaxPresetOps
       /\ Len(customPresets) < MaxPresets
       /\ presetOps' = presetOps + 1
       /\ customPresets' = pushed
       /\ storedPresets' = Some(JSONstringify(pushed))
       /\ toast' = IF renders(pushed) THEN Some("Saved preset") ELSE Null
       /\ savedFrom' = Append(savedFrom, Some([f \in PresetFields |-> Control(f)]))
       /\ lastLoad' = Null
       /\ UNCHANGED <<controls, psSettings, countTimeout, pbVars, cyVars>>
       /\ UNCHANGED exceptPreset

\* presets of an imported file: some fields missing, one field null
ImportedPresets ==
    { [pattern |-> Some("cube"), color |-> Some("#ff006e")],
      [pattern |-> Some("sphere"), particleSize |-> Some(2 * Scale)],
      [autoRotate |-> Some(FALSE), particleCount |-> Some(6), connections |-> Some(TRUE)],
      [color |-> Some("#ff006e"), glowIntensity |-> Null, morphSpeed |-> Some(2 * Scale)] }

\* the files handed to importPresets: text that is not JSON, JSON without
\* a presets array, and presets arrays that are empty, hold one preset,
\* hold null, or hold a preset and null
ImportFiles ==
    { [parsed |-> FALSE, presets |-> Null],
      [parsed |-> TRUE, presets |-> Null],
      [parsed |-> TRUE, presets |-> Some(<<>>)],
      [parsed |-> TRUE, presets |-> Some(<<JSONnull>>)],
      [parsed |-> TRUE,
       presets |-> Some(<<[pattern |-> Some("cube"), color |-> Some("#ff006e")], JSONnull>>)] }
        \cup { [parsed |-> TRUE, presets |-> Some(<<preset>>)] : preset \in ImportedPresets }

FailedToImport == "Failed to import presets"

\* reader.onload of importPresets: every throw inside the try block, of
\* JSON.parse, of the format test or of renderCustomPresets, ends in the
\* catch block
importPresets(file) ==
    LET valid    == file.parsed /\ file.presets # Null
        imported == IF valid THEN file.presets[1] ELSE <<>>
        spread   == customPresets \o imported
    IN /\ presetOps < MaxPresetOps
       /\ Len(spread) <= MaxPresets
       /\ presetOps' = presetOps + 1
       /\ customPresets' = IF valid THEN spread ELSE customPresets
       /\ storedPresets' = IF valid THEN Some(JSONstringify(spread)) ELSE storedPresets
       /\ toast' = IF valid /\ renders(spread) THEN Some("Imported preset(s)")
                   ELSE Some(FailedToImport)
       /\ savedFrom' = savedFrom \o [i \in 1..Len(imported) |-> Null]
       /\ lastLoad' = Null
       /\ UNCHANGED <<controls, psSettings, countTimeout, pbVars, cyVars>>
       /\ UNCHANGED exceptPreset

\* deleteCustomPreset(index) of a rendered item, confirmed
deleteCustomPreset(index) ==
    LET spliced == [i \in 1..(Len(customPresets) - 1) |->
                       IF i < index THEN customPresets[i] ELSE customPresets[i + 1]]
    IN /\ presetOps < MaxPresetOps
       /\ index \in 1..renderedItems(customPresets)
       /\ presetOps' = presetOps + 1
       /\ customPresets' = spliced
       /\ storedPresets' = Some(JSONstringify(spliced))
       /\ toast' = IF renders(spliced) THEN Some("Deleted") ELSE Null
       /\ savedFrom' = [i \in 1..(Len(savedFrom) - 1) |->
                           IF i < index THEN savedFrom[i] ELSE savedFrom[i + 1]]
       /\ lastLoad' = Null
       /\ UNCHANGED <<controls, psSettings, countTimeout, pbVars, cyVars>>
       /\ UNCHANGED exceptPreset

\* a click on the custom preset at an index
customPresetClick(index) ==
    /\ presetOps < MaxPresetOps
    /\ index \in 1..renderedItems(customPresets)
    /\ presetOps' = presetOps + 1
    /\ loadPreset(customPresets[index], savedFrom[index])
    /\ toast' = Some("Loaded")
    /\ UNCHANGED <<customPresets, savedFrom, storedPresets>>
    /\ UNCHANGED exceptPresetRest
    /\ UNCHANGED exceptPreset

(***************************************************************************)
(* ParticleSystem.animate: the scale follows targetScale                   *)
(***************************************************************************)
\* the openness of the snapshots handed to setGestureData
Opennesses == {0, Scale \div 2, Scale}

\* a snapshot with this openness, no pinch and a hand at rest
SnapshotOf(openness) ==
    [openness |-> openness, pinch |-> 0, velocity |-> ZeroVelocity, rotation |-> 0,
     isPinching |-> FALSE]

\* a product rounded to the nearest thousandth
Rounded(n, d) == IF n >= 0 THEN (2 * n + d) \div (2 * d) ELSE 0 - ((2 * (0 - n) + d) \div (2 * d))

\* the scale after a tick that overshoots the target
smoothScalePast(current, target) == current + Rounded((target - current) * 108, 100)

\* this.currentScale += (this.targetScale - this.currentScale) * 0.08
smoothScale(current, target) == current + Rounded((target - current) * 8, 100)

\* this.currentScale = 1
ScaleConstructed == currentScale = Scale

\* onGestureUpdate: the snapshot goes to setGestureData
gestureUpdate(openness) ==
    /\ setGestureData(SnapshotOf(openness))
    /\ UNCHANGED currentScale
    /\ UNCHANGED exceptScale

\* one animation frame: the smooth interpolation of the scale
animateScale ==
    /\ currentScale' = smoothScale(currentScale, targetScale)
    /\ UNCHANGED psVars
    /\ UNCHANGED exceptScale

(***************************************************************************)
(* calculateHandOpenness and detectSpecialGestures on the curls of a hand  *)
(***************************************************************************)
\* the curl values of a finger: both ends, and values on and between the
\* thresholds of detectSpecialGestures
CurlValues == {0, 300, 450, 700, Scale}

Fingers == {"thumb", "index", "middle", "ring", "pinky"}

\* this.fingerCurls holding these curls, nothing computed from them yet
CurlsGiven(curls) ==
    /\ hcCurls = curls
    /\ hcOpenness = Null
    /\ hcThumb = Null
    /\ hcThumbOpenness = Null
    /\ hcDetected = Null

\* the curls the constructor sets
CurlsIdle == CurlsGiven([f \in Fingers |-> 0])

\* calculateHandOpenness on the curls and on the same curls with another
\* thumb curl
opennessOfFrames(thumb) ==
    /\ hcThumb = Null
    /\ hcOpenness' = Some(calculateHandOpenness(hcCurls))
    /\ hcThumb' = Some(thumb)
    /\ hcThumbOpenness' = Some(calculateHandOpenness([hcCurls EXCEPT !.thumb = thumb]))
    /\ UNCHANGED <<hcCurls, hcDetected>>
    /\ UNCHANGED exceptCurls

\* the tests of detectSpecialGestures that pass, by the label each gives
passingTests(curls) ==
    {g \in {"thumbsUp", "peace", "fist", "open"} :
        CASE g = "thumbsUp" -> isThumbsUp(curls)
          [] g = "peace" -> isPeace(curls)
          [] g = "fist" -> isFist(curls)
          [] OTHER -> isOpen(curls)}

\* detectSpecialGestures on the curls, not pinching, first label
detectOnCurls ==
    /\ hcDetected = Null
    /\ hcDetected' = Some([tests |-> passingTests(hcCurls),
                           gesture |-> detectSpecialGestures(hcCurls, FALSE, 0, "none").gesture])
    /\ UNCHANGED <<hcCurls, hcOpenness, hcThumb, hcThumbOpenness>>
    /\ UNCHANGED exceptCurls

(***************************************************************************)
(* UIController.handleKeyboard while and after App.init                    *)
(***************************************************************************)
\* the patterns of the keys '1' and '2'
KeyPatterns == {patterns[1], patterns[2]}

\* a number key is pressed once the UIController exists: selectPattern,
\* whose onPatternChange is null until setupUICallbacks has run and raises
\* when there is no particle system
handleKeyboard(pattern) ==
    /\ appStep # "constructed"
    /\ IF callbacksWired > 0 /\ particleSystemMade
       THEN selectPattern(pattern)
       ELSE /\ uiCurrentPattern' = pattern
            /\ UNCHANGED <<psCurrentPattern, lastSetPattern, pbVars>>
    /\ UNCHANGED <<startPattern, thumbsUps>>
    /\ UNCHANGED exceptPatternChange

(***************************************************************************)
(* App.setupUICallbacks: onParticleCountChange (debounced) and onReset     *)
(***************************************************************************)
\* Largest number of particle-count events and resets.
MaxCountEvents == 4

\* the delay of the debounce timer
debounceDelay == 300

\* the time between one event and the next
Gaps == {100, 299, 300}

\* no event yet, no timer pending
DebounceIdle ==
    /\ dbTimers = {}
    /\ dbEvents = 0
    /\ dbBurst = <<>>
    /\ dbSince = 0
    /\ dbInvoked = <<>>

\* the particle system's buffers and pattern, as one value
particleState ==
    [particleCount |-> particleCount, basePositions |-> basePositions,
     targetPositions |-> targetPositions, previousPositions |-> previousPositions,
     velocities |-> velocities, geometry |-> geometry, currentPattern |-> psCurrentPattern]

\* setParticleCount(count) on such a value
afterSetParticleCount(st, count) ==
    IF count = st.particleCount THEN st
    ELSE LET b == createParticles(count)
             g == generate(st.currentPattern, count)
         IN [st EXCEPT !.particleCount = count,
                       !.previousPositions = b.previousPositions,
                       !.velocities = b.velocities,
                       !.geometry = b.geometry,
                       !.basePositions = IF g.raised THEN b.basePositions ELSE g.basePositions,
                       !.targetPositions = IF g.raised THEN b.targetPositions
                                           ELSE g.targetPositions]

\* setPattern(patternName) on such a value
afterSetPattern(st, patternName) ==
    IF patternName = st.currentPattern THEN st
    ELSE LET g == generate(patternName, st.particleCount)
         IN IF g.raised THEN [st EXCEPT !.currentPattern = patternName]
            ELSE [st EXCEPT !.currentPattern = patternName,
                            !.basePositions = g.basePositions,
                            !.targetPositions = g.targetPositions,
                            !.velocities = [@ EXCEPT !.content = "zero"]]

\* the particle system takes such a value
becomes(st) ==
    /\ particleCount' = st.particleCount
    /\ basePositions' = st.basePositions
    /\ targetPositions' = st.targetPositions
    /\ previousPositions' = st.previousPositions
    /\ velocities' = st.velocities
    /\ geometry' = st.geometry
    /\ psCurrentPattern' = st.currentPattern
    /\ UNCHANGED <<trailsEnabled, trailLength, trailGeometry, trailHistory, trailUpdateCounter>>

\* time passes: every pending timer comes closer
elapse(timers, ms) == {[t EXCEPT !.remaining = @ - ms] : t \in timers}

\* a debounce that leaves the earlier timers pending
setTimeoutOnly(timers, seq, count) ==
    timers \cup {[seq |-> seq, remaining |-> debounceDelay, count |-> count]}

\* clearTimeout(countTimeout); countTimeout = setTimeout(..., 300): the
\* handle is that of the timer set last, which is the last to fire
debounce(timers, seq, count) ==
    {t \in timers : \E u \in timers : u.seq > t.seq}
        \cup {[seq |-> seq, remaining |-> debounceDelay, count |-> count]}

\* onParticleCountChange(count), gap milliseconds after the event before
onParticleCountChange(count, gap) ==
    /\ dbEvents < MaxCountEvents
    /\ \A t \in dbTimers : t.remaining > gap
    /\ dbEvents' = dbEvents + 1
    /\ dbTimers' = debounce(elapse(dbTimers, gap), dbEvents', count)
    /\ countTimeout' = Some(count)
    /\ dbBurst' = IF dbTimers = {} THEN <<count>> ELSE Append(dbBurst, count)
    /\ dbInvoked' = IF dbTimers = {} THEN <<>> ELSE dbInvoked
    /\ dbSince' = 0

\* an input event of the particle-count slider
countSliderInput(count, gap) ==
    /\ onParticleCountChange(count, gap)
    /\ controls' = [controls EXCEPT !.particleCount = count]
    /\ lastLoad' = Null
    /\ toast' = Null
    /\ UNCHANGED <<psSettings, customPresets, savedFrom, storedPresets, presetOps, pbVars, cyVars>>
    /\ UNCHANGED exceptDebounce

\* the counts a two-finger pinch is clamped to (5000 and 30000 in the
\* source), cut down to the counts of this model
PinchCounts == PresetCounts

\* handleTouchMove with two touches moved apart or together by more than a
\* tenth
pinchZoom(apart, gap) ==
    LET currentCount == controls.particleCount
        newCount     == Rounded(currentCount * (IF apart THEN 102 ELSE 98), 100)
        least        == CHOOSE c \in PinchCounts : \A d \in PinchCounts : c <= d
        most         == CHOOSE c \in PinchCounts : \A d \in PinchCounts : c >= d
        clampedCount == Max(least, Min(most, newCount))
    IN /\ onParticleCountChange(clampedCount, gap)
       /\ controls' = [controls EXCEPT !.particleCount = clampedCount]
       /\ lastLoad' = Null
       /\ toast' = Null
       /\ UNCHANGED <<psSettings, customPresets, savedFrom, storedPresets, presetOps, pbVars, cyVars>>
       /\ UNCHANGED exceptDebounce

\* loadPreset of a preset that has a particle count
presetWithCount(preset, gap) ==
    /\ "particleCount" \in DOMAIN preset
    /\ preset.particleCount # Null
    /\ onParticleCountChange(preset.particleCount[1], gap)
    /\ loadPreset(preset, Null)
    /\ toast' = Null
    /\ UNCHANGED <<customPresets, savedFrom, storedPresets, presetOps>>
    /\ UNCHANGED exceptPresetRest
    /\ UNCHANGED exceptDebounce

\* UIController.defaults, the count cut down to the largest of this model
defaults ==
    [pattern |-> "sphere", color |-> "#00d4ff", particleCount |-> MaxCount,
     particleSize |-> Scale, glowIntensity |-> Scale, rotationSpeed |-> Scale,
     morphSpeed |-> Scale, idleAmplitude |-> Scale, autoRotate |-> TRUE]

\* resetAll() and the onReset callback of setupUICallbacks
resetAll(gap) ==
    /\ dbEvents < MaxCountEvents
    /\ \A t \in dbTimers : t.remaining > gap
    /\ dbEvents' = dbEvents + 1
    /\ dbTimers' = elapse(dbTimers, gap)
    /\ dbSince' = dbSince + gap
    /\ dbInvoked' = Append(dbInvoked, [by |-> "onReset", count |-> defaults.particleCount,
                                       since |-> dbSince'])
    /\ controls' = [f \in DOMAIN controls |->
                       IF f = "connections" THEN controls[f] ELSE defaults[f]]
    /\ psSettings' = [f \in DOMAIN psSettings |->
                       IF f = "connections" THEN psSettings[f] ELSE defaults[f]]
    /\ uiCurrentPattern' = defaults.pattern
    /\ lastSetPattern' = Some(defaults.pattern)
    /\ becomes(afterSetPattern(
                 afterSetParticleCount(
                    IF uiCurrentPattern # defaults.pattern
                    THEN afterSetPattern(particleState, defaults.pattern)
                    ELSE particleState,
                    defaults.particleCount),
                 defaults.pattern))
    /\ lastLoad' = Null
    /\ toast' = Null
    /\ UNCHANGED <<countTimeout, dbBurst, customPresets, savedFrom, storedPresets, presetOps>>
    /\ UNCHANGED exceptPresetRest
    /\ UNCHANGED exceptDebounce

\* the earliest pending timer fires: setParticleCount(count), then
\* setPattern(getCurrentPattern())
debounceTimerFires ==
    /\ dbTimers # {}
    /\ LET timer == CHOOSE t \in dbTimers : \A u \in dbTimers : t.remaining <= u.remaining
       IN /\ dbTimers' = elapse(dbTimers \ {timer}, timer.remaining)
          /\ dbSince' = dbSince + timer.remaining
          /\ dbInvoked' = Append(dbInvoked, [by |-> "timer", count |-> timer.count,
                                             since |-> dbSince'])
          /\ countTimeout' = IF dbTimers' = {} THEN Null ELSE countTimeout
          /\ becomes(afterSetPattern(afterSetParticleCount(particleState, timer.count),
                                     uiCurrentPattern))
          /\ lastSetPattern' = Some(uiCurrentPattern)
    /\ UNCHANGED <<dbEvents, dbBurst>>
    /\ toast' = Null
    /\ UNCHANGED <<controls, psSettings, customPresets, savedFrom, storedPresets, lastLoad, presetOps>>
    /\ UNCHANGED <<uiCurrentPattern, startPattern, thumbsUps>>
    /\ UNCHANGED exceptDebounce

(***************************************************************************)
(* Specifications: the generator call, the frames handed to onResults,    *)
(* the buffer operations and the position update                          *)
(***************************************************************************)
PatternInit ==
    /\ pgName \in PatternInputs
    /\ pgCount \in 1..MaxCount
    /\ pgGenerator = Undefined
    /\ pgResult = NoResult
    /\ GestureConstructed
    /\ ParticleSystemConstructed
    /\ BuffersCreated(MaxCount)
    /\ ParticleAtRest
    /\ FilterIdle
    /\ TrackerIdle
    /\ CurlIdle
    /\ LODConstructed
    /\ AppConstructed
    /\ AudioConstructed
    /\ PatternSelected("sphere")
    /\ PresetsConstructed
    /\ ScaleConstructed
    /\ CurlsIdle
    /\ DebounceIdle

PatternNext == Resolve \/ Generate \/ NextCall

PatternSpec == PatternInit /\ [][PatternNext]_vars

GestureInit ==
    /\ GestureConstructed /\ ParticleSystemConstructed /\ PatternIdle
    /\ BuffersCreated(MaxCount) /\ ParticleAtRest
    /\ FilterIdle
    /\ TrackerIdle
    /\ CurlIdle
    /\ LODConstructed
    /\ AppConstructed
    /\ AudioConstructed
    /\ PatternSelected("sphere")
    /\ PresetsConstructed
    /\ ScaleConstructed
    /\ CurlsIdle
    /\ DebounceIdle

GestureNext == \E results \in Results, dt \in FrameIntervals : onResults(results, dt)

GestureSpec == GestureInit /\ [][GestureNext]_vars

BufferInit ==
    /\ \E count \in ParticleCounts : BuffersCreated(count)
    /\ GestureConstructed
    /\ ParticleSystemConstructed
    /\ PatternIdle
    /\ ParticleAtRest
    /\ FilterIdle
    /\ TrackerIdle
    /\ CurlIdle
    /\ LODConstructed
    /\ AppConstructed
    /\ AudioConstructed
    /\ PatternSelected("sphere")
    /\ PresetsConstructed
    /\ ScaleConstructed
    /\ CurlsIdle
    /\ DebounceIdle

BufferNext ==
    \/ \E count \in ParticleCounts : setParticleCount(count)
    \/ \E enabled \in BOOLEAN : setTrailsEnabled(enabled)
    \/ \E length \in TrailLengths : setTrailLength(length)
    \/ animate
    \/ \E pattern \in SetPatternInputs : onPatternChange(pattern)

BufferSpec == BufferInit /\ [][BufferNext]_vars

UpdateInit ==
    /\ currentX \in StartPositions
    /\ targetX \in TargetPositions
    /\ morphSpeed \in MorphSpeeds
    /\ velocityX = 0
    /\ ticks = 0
    /\ distanceX = Abs(currentX - targetX)
    /\ distanceBefore = Abs(currentX - targetX)
    /\ GestureConstructed
    /\ ParticleSystemConstructed
    /\ PatternIdle
    /\ BuffersCreated(MaxCount)
    /\ FilterIdle
    /\ TrackerIdle
    /\ CurlIdle
    /\ LODConstructed
    /\ AppConstructed
    /\ AudioConstructed
    /\ PatternSelected("sphere")
    /\ PresetsConstructed
    /\ ScaleConstructed
    /\ CurlsIdle
    /\ DebounceIdle

UpdateNext == updatePositions

UpdateSpec == UpdateInit /\ [][UpdateNext]_vars

FilterInit ==
    /\ \E k \in Coefficients : FilterConstructed(k)
    /\ GestureConstructed
    /\ ParticleSystemConstructed
    /\ PatternIdle
    /\ BuffersCreated(MaxCount)
    /\ ParticleAtRest
    /\ TrackerIdle
    /\ CurlIdle
    /\ LODConstructed
    /\ AppConstructed
    /\ AudioConstructed
    /\ PatternSelected("sphere")
    /\ PresetsConstructed
    /\ ScaleConstructed
    /\ CurlsIdle
    /\ DebounceIdle

FilterNext ==
    \/ \E x \in FilterInputs, timestamp \in Timestamps, step \in ClockSteps :
           FilterCall(x, timestamp, step)
    \/ FilterReset

FilterSpec == FilterInit /\ [][FilterNext]_vars

TrackerInit ==
    /\ \E h \in HistoryLengths : TrackerConstructed(h)
    /\ FilterIdle
    /\ GestureConstructed
    /\ ParticleSystemConstructed
    /\ PatternIdle
    /\ BuffersCreated(MaxCount)
    /\ ParticleAtRest
    /\ CurlIdle
    /\ LODConstructed
    /\ AppConstructed
    /\ AudioConstructed
    /\ PatternSelected("sphere")
    /\ PresetsConstructed
    /\ ScaleConstructed
    /\ CurlsIdle
    /\ DebounceIdle

TrackerNext ==
    \/ \E position \in TrackedPositions, timestamp \in UpdateTimestamps, step \in ClockSteps :
           TrackerUpdate(position, timestamp, step)
    \/ TrackerReset

TrackerSpec == TrackerInit /\ [][TrackerNext]_vars

CurlInit ==
    /\ \E mcp \in Knuckles, b1 \in Bones, b2 \in Bones, b3 \in Bones :
          CurlInputs(Finger(mcp, b1, b2, b3))
    /\ TrackerIdle
    /\ FilterIdle
    /\ GestureConstructed
    /\ ParticleSystemConstructed
    /\ PatternIdle
    /\ BuffersCreated(MaxCount)
    /\ ParticleAtRest
    /\ LODConstructed
    /\ AppConstructed
    /\ AudioConstructed
    /\ PatternSelected("sphere")
    /\ PresetsConstructed
    /\ ScaleConstructed
    /\ CurlsIdle
    /\ DebounceIdle

CurlNext ==
    \/ \E d \in Translations : CurlTranslated(d)
    \/ \E k \in Factors : CurlScaled(k)

CurlSpec == CurlInit /\ [][CurlNext]_vars

LODInit ==
    /\ LODConstructed
    /\ GestureConstructed
    /\ ParticleSystemConstructed
    /\ PatternIdle
    /\ BuffersCreated(MaxCount)
    /\ ParticleAtRest
    /\ FilterIdle
    /\ TrackerIdle
    /\ CurlIdle
    /\ AppConstructed
    /\ AudioConstructed
    /\ PatternSelected("sphere")
    /\ PresetsConstructed
    /\ ScaleConstructed
    /\ CurlsIdle
    /\ DebounceIdle

LODNext == \E delta \in FrameDeltas : animateLOD(delta)

LODSpec == LODInit /\ [][LODNext]_vars

AppInit ==
    /\ AppConstructed
    /\ GestureConstructed
    /\ ParticleSystemConstructed
    /\ PatternIdle
    /\ BuffersCreated(MaxCount)
    /\ ParticleAtRest
    /\ FilterIdle
    /\ TrackerIdle
    /\ CurlIdle
    /\ LODConstructed
    /\ AudioConstructed
    /\ PatternSelected("sphere")
    /\ PresetsConstructed
    /\ ScaleConstructed
    /\ CurlsIdle
    /\ DebounceIdle

AppNext ==
    \/ \E thrown \in {Null} \cup {Some(err) : err \in Errors} : init(thrown)
    \/ \E rejected \in {Null} \cup {Some(err) : err \in Errors}, delay \in CameraDelays :
           cameraSettles(rejected, delay)
    \/ timerFires
    \/ \E pattern \in KeyPatterns : handleKeyboard(pattern)

AppSpec == AppInit /\ [][AppNext]_vars

AudioInit ==
    /\ AudioConstructed
    /\ GestureConstructed
    /\ ParticleSystemConstructed
    /\ PatternIdle
    /\ BuffersCreated(MaxCount)
    /\ ParticleAtRest
    /\ FilterIdle
    /\ TrackerIdle
    /\ CurlIdle
    /\ LODConstructed
    /\ AppConstructed
    /\ PatternSelected("sphere")
    /\ PresetsConstructed
    /\ ScaleConstructed
    /\ CurlsIdle
    /\ DebounceIdle

AudioNext ==
    \/ audioToggleOn
    \/ audioToggleOff
    \/ \E call \in 1..MaxAudioCalls : getUserMediaResolves(call)
    \/ \E call \in 1..MaxAudioCalls : getUserMediaRejects(call)

AudioSpec == AudioInit /\ [][AudioNext]_vars

CycleInit ==
    /\ PatternSelected("sphere")
    /\ GestureConstructed
    /\ ParticleSystemConstructed
    /\ PatternIdle
    /\ BuffersCreated(MaxCount)
    /\ ParticleAtRest
    /\ FilterIdle
    /\ TrackerIdle
    /\ CurlIdle
    /\ LODConstructed
    /\ AppConstructed
    /\ AudioConstructed
    /\ PresetsConstructed
    /\ ScaleConstructed
    /\ CurlsIdle
    /\ DebounceIdle

CycleNext ==
    \/ thumbsUp
    \/ \E pattern \in getPatternNames : loadPresetPattern(pattern)

CycleSpec == CycleInit /\ [][CycleNext]_vars

PresetInit ==
    /\ PresetsConstructed
    /\ GestureConstructed
    /\ ParticleSystemConstructed
    /\ PatternIdle
    /\ BuffersCreated(MaxCount)
    /\ ParticleAtRest
    /\ FilterIdle
    /\ TrackerIdle
    /\ CurlIdle
    /\ LODConstructed
    /\ AppConstructed
    /\ AudioConstructed
    /\ PatternSelected("sphere")
    /\ ScaleConstructed
    /\ CurlsIdle
    /\ DebounceIdle

PresetNext ==
    \/ \E value \in Colors : controlInput("color", value)
    \/ \E value \in PresetCounts : controlInput("particleCount", value)
    \/ \E f \in SliderFields : \E value \in SliderValues : controlInput(f, value)
    \/ \E f \in {"connections", "autoRotate"} : \E value \in BOOLEAN : controlInput(f, value)
    \/ \E pattern \in PresetPatterns : patternClick(pattern)
    \/ countTimeoutFires
    \/ saveCustomPreset
    \/ \E file \in ImportFiles : importPresets(file)
    \/ \E index \in 1..MaxPresets : customPresetClick(index)
    \/ \E index \in 1..MaxPresets : deleteCustomPreset(index)

PresetSpec == PresetInit /\ [][PresetNext]_vars

ScaleInit ==
    /\ ScaleConstructed
    /\ GestureConstructed
    /\ ParticleSystemConstructed
    /\ PatternIdle
    /\ BuffersCreated(MaxCount)
    /\ ParticleAtRest
    /\ FilterIdle
    /\ TrackerIdle
    /\ CurlIdle
    /\ LODConstructed
    /\ AppConstructed
    /\ AudioConstructed
    /\ PatternSelected("sphere")
    /\ PresetsConstructed
    /\ CurlsIdle
    /\ DebounceIdle

ScaleNext ==
    \/ \E openness \in Opennesses : gestureUpdate(openness)
    \/ animateScale

ScaleSpec == ScaleInit /\ [][ScaleNext]_vars

CurlsInit ==
    /\ \E curls \in [Fingers -> CurlValues] : CurlsGiven(curls)
    /\ GestureConstructed
    /\ ParticleSystemConstructed
    /\ PatternIdle
    /\ BuffersCreated(MaxCount)
    /\ ParticleAtRest
    /\ FilterIdle
    /\ TrackerIdle
    /\ CurlIdle
    /\ LODConstructed
    /\ AppConstructed
    /\ AudioConstructed
    /\ PatternSelected("sphere")
    /\ PresetsConstructed
    /\ ScaleConstructed
    /\ DebounceIdle

CurlsNext ==
    \/ \E thumb \in CurlValues : opennessOfFrames(thumb)
    \/ detectOnCurls

CurlsSpec == CurlsInit /\ [][CurlsNext]_vars

DebounceInit ==
    /\ DebounceIdle
    /\ GestureConstructed
    /\ ParticleSystemConstructed
    /\ PatternIdle
    /\ BuffersCreated(MaxCount)
    /\ ParticleAtRest
    /\ FilterIdle
    /\ TrackerIdle
    /\ CurlIdle
    /\ LODConstructed
    /\ AppConstructed
    /\ AudioConstructed
    /\ PatternSelected("sphere")
    /\ PresetsConstructed
    /\ ScaleConstructed
    /\ CurlsIdle

DebounceNext ==
    \/ \E count \in PresetCounts, gap \in Gaps : countSliderInput(count, gap)
    \/ \E apart \in BOOLEAN, gap \in Gaps : pinchZoom(apart, gap)
    \/ \E preset \in ImportedPresets, gap \in Gaps : presetWithCount(preset, gap)
    \/ \E gap \in Gaps : resetAll(gap)
    \/ debounceTimerFires

DebounceSpec == DebounceInit /\ [][DebounceNext]_vars

(***************************************************************************)
(* Properties of the generators                                            *)
(***************************************************************************)

\* C1: when a generator returns, its emitted-point counter idx equals count
\* and no slot of the buffer is left at the default 0.
C1_EveryPointEmitted ==
    pgResult.kind = "positions" =>
        /\ pgResult.idx = pgCount
        /\ \A k \in 1..Len(pgResult.positions) : pgResult.positions[k] # "zero"

\* C2: the array returned by the generator resolved through getPattern has
\* length exactly 3 * count.
C2_LengthIsThreeTimesCount ==
    pgResult.kind = "positions" => Len(pgResult.positions) = 3 * pgCount

\* a generator whose grid underfills has returned: the length is still 3 * count
C2_Witness ==
    /\ pgResult.kind = "positions"
    /\ pgName = "cube"
    /\ pgCount = 7
    /\ pgResult.idx = 6

\* C3: getPattern returns the matching generator for a fixed identifier and
\* the sphere generator for every other name; it never returns a value that
\* is not a generator, and calling what it returned never raises.
C3_AlwaysAGenerator ==
    /\ pgGenerator # Undefined =>
           /\ pgGenerator.kind = "generator"
           /\ pgGenerator.name = (IF pgName \in getPatternNames THEN pgName ELSE "sphere")
    /\ pgResult.kind # "raised"

(***************************************************************************)
(* Properties of the gesture detector                                      *)
(***************************************************************************)
\* how many times a callback was called in the last frame
Calls(evs, name) == Cardinality({i \in 1..Len(evs) : evs[i][1] = name})

\* the snapshot handed to onGestureUpdate in the last frame
Snap == snapshot[1]

\* C4: onPinchStart is called exactly in the frames where isPinching goes
\* from false to true and onPinchEnd exactly where it goes from true to
\* false, each at most once per frame, and the two alternate, onPinchStart
\* first.
C4_PinchEdges ==
    [][ /\ Fired(events', "onPinchStart") <=> (~isPinching /\ isPinching')
        /\ Fired(events', "onPinchEnd") <=> (isPinching /\ ~isPinching')
        /\ Calls(events', "onPinchStart") + Calls(events', "onPinchEnd") <= 1
        /\ Fired(events', "onPinchStart") => lastPinchEvent # "onPinchStart"
        /\ Fired(events', "onPinchEnd") => lastPinchEvent = "onPinchStart" ]_vars

\* a pinch that started again after it had ended: the filtered value is
\* below 1 only when the filter already held a lower value
C4_Witness ==
    /\ frames = MaxFrames
    /\ Fired(events, "onPinchStart")
    /\ lastPinchEvent = "onPinchStart"
    /\ pinchValue > pinchThreshold
    /\ pinchValue < Scale

\* C5: in every snapshot, of a frame with a hand or of a tick without,
\* isPinching is true exactly when the snapshot's pinch is above 0.7.
C5_IsPinchingIsThreshold ==
    snapshot # Null => (Snap.isPinching <=> Snap.pinch > pinchThreshold)

\* C6: in every snapshot of a frame with a hand the label is 'pinch'
\* exactly when the snapshot's isPinching is true.
C6_PinchLabelFollowsIsPinching ==
    (snapshot # Null /\ Snap.isHandDetected)
        => (Snap.gesture = "pinch" <=> Snap.isPinching)

\* C7: onSpecialGesture is called in a frame exactly when the label computed
\* in it differs from the label of the frame processed before and is not
\* 'none', at most once, with the new label and its confidence.
C7_SpecialGestureOnChange ==
    [][ /\ Fired(events', "onSpecialGesture")
             <=> (isHandDetected' /\ currentGesture' # currentGesture
                                  /\ currentGesture' # "none")
        /\ Calls(events', "onSpecialGesture") <= 1
        /\ \A i \in 1..Len(events') :
               events'[i][1] = "onSpecialGesture"
                   => events'[i] = <<"onSpecialGesture", currentGesture',
                                     gestureConfidence'>> ]_vars

\* the label changed from one gesture to 'pinch', and the change was reported
C7_Witness ==
    /\ frames >= 2
    /\ currentGesture = "pinch"
    /\ <<"onSpecialGesture", "pinch", gestureConfidence>> = events[1]

\* C8: onHandDetected is called exactly once in each frame with a hand that
\* follows none, onHandLost exactly once in each frame without a hand that
\* follows one; they alternate, onHandDetected first.
C8_HandEdges ==
    [][ /\ Fired(events', "onHandDetected") <=> (~isHandDetected /\ isHandDetected')
        /\ Fired(events', "onHandLost") <=> (isHandDetected /\ ~isHandDetected')
        /\ Calls(events', "onHandDetected") + Calls(events', "onHandLost") <= 1
        /\ Fired(events', "onHandDetected") => lastHandEvent # "onHandDetected"
        /\ Fired(events', "onHandLost") => lastHandEvent = "onHandDetected" ]_vars

\* a hand that was detected and then lost
C8_Witness ==
    /\ frames >= 2
    /\ ~isHandDetected
    /\ events = <<<<"onHandLost">>>>
    /\ lastHandEvent = "onHandLost"

\* C9: in every frame in which the second hand stops being present,
\* handDistance and handSpread become 0 and onTwoHandsLost is called once.
C9_SecondHandLost ==
    [][ (twoHandsDetected /\ ~twoHandsDetected')
            => /\ handDistance' = 0
               /\ handSpread' = 0
               /\ Calls(events', "onTwoHandsLost") = 1 ]_vars

\* C10: after every tick without a hand the targets of the particle system
\* are neutral.
C10_NeutralTargetsWithoutHand ==
    (snapshot # Null /\ ~Snap.isHandDetected)
        => /\ targetScale = Scale
           /\ targetPinchValue = 0
           /\ targetTurbulence = 0
           /\ targetExplosionForce = 0

\* a results object that carries no usable hand: the property absent or
\* empty, or a hand entry without all of its 21 landmarks
Malformed(results) ==
    \/ ~hasHand(results)
    \/ \E i \in 1..Len(results.multiHandLandmarks) :
           drawHandRaises(results.multiHandLandmarks[i])

\* C11: a frame whose landmark data is missing or malformed does not raise
\* and changes the state, calls the callbacks and hands out the snapshot of
\* a frame without a hand.
C11_MalformedIsNoHand ==
    [][ Malformed(lastResults')
            => /\ ~raised'
               /\ NoHandBranch(now')
               /\ snapshot' = Some(getGestureData') ]_vars

\* C12: the pinch value of every snapshot is a number in [0,1].
C12_PinchIsANumberInRange ==
    snapshot # Null => (Snap.pinch >= 0 /\ Snap.pinch <= Scale)

\* the results object with the one hand given
OneHand(hand) == [multiHandLandmarks |-> <<hand>>]

\* C13: on a first frame without a pinch, a hand with its four non-thumb
\* fingers straight has openness about 1 and the label 'open', a hand with
\* all five fingers fully curled has openness about 0 and the label 'fist',
\* and a hand with the thumb straight and the other four curled has the
\* label 'thumbsUp' with confidence 0.9.
C13_OpenFistThumbsUp ==
    (frames = 1 /\ snapshot # Null) =>
        /\ lastResults = OneHand(MakeHand(PoseStraight, FALSE, Origin))
               => (Snap.openness >= 900 /\ Snap.gesture = "open")
        /\ lastResults = OneHand(MakeHand(PoseFolded, FALSE, Origin))
               => (Snap.openness <= 100 /\ Snap.gesture = "fist")
        /\ lastResults = OneHand(MakeHand(PoseThumbOut, FALSE, Origin))
               => (Snap.gesture = "thumbsUp" /\ Snap.gestureConfidence = 900)

(***************************************************************************)
(* Properties of the particle buffers                                      *)
(***************************************************************************)
\* C14: after setParticleCount(n) with n other than the current count the
\* velocities are all zero, the position buffers have length 3n, the size
\* and alpha attributes length n, and the trail geometry and every trail
\* snapshot, when trails exist, are sized for floor(n / trailSampleRate)
\* sampled particles.
C14_BuffersResized ==
    [][ particleCount' # particleCount =>
          LET n       == particleCount'
              sampled == Floor(n, trailSampleRate)
          IN /\ velocities' = Float32Array(3 * n, "zero")
             /\ basePositions'.length = 3 * n
             /\ targetPositions'.length = 3 * n
             /\ previousPositions'.length = 3 * n
             /\ geometry'.position.length = 3 * n
             /\ geometry'.size.length = n
             /\ geometry'.alpha.length = n
             /\ trailGeometry' # Null =>
                    /\ trailGeometry'[1].length = sampled * (trailLength' - 1) * 6
                    /\ \A i \in 1..Len(trailHistory') :
                           trailHistory'[i].length = sampled * 3 ]_vars

\* C15: with a constant target and no turbulence, explosion or audio, the
\* distance of the particle to its target does not grow from the second
\* updatePositions call on (one fixed-point unit of rounding allowed).
C15_DistanceNeverGrows ==
    ticks >= 2 => distanceX <= distanceBefore + 1

(***************************************************************************)
(* Properties of the OneEuroFilter                                         *)
(***************************************************************************)
\* C16: the first filter call on a new filter and the first after reset()
\* return the input and seed the state with it, and after reset() the
\* filter and its outputs are those of a newly constructed filter with the
\* same coefficients that gets the same calls.
C16_FirstCallSeedsAndResetIsNew ==
    [][ /\ (ftCall'.op = "filter" /\ ftFilter.xPrev = Null)
            => /\ ftOut' = Some(ftCall'.x)
               /\ ftFilter'.xPrev = Some(ftCall'.x)
               /\ ftFilter'.tPrev # Null
        /\ ftTwin' # Null => (ftFilter' = ftTwin'[1] /\ ftOut' = ftTwinOut') ]_vars

\* a filter with a derivative estimate was reset and has smoothed an input
\* since
C16_Witness ==
    /\ ftResetFrom # Null
    /\ ftResetFrom[1].dxPrev # 0
    /\ ftCall.op = "filter"
    /\ ftOut # Null
    /\ ftFilter.dxPrev # 0

\* C17: a filter call on a seeded filter with an explicit timestamp not
\* greater than the stored one returns the stored value and leaves the
\* stored value, derivative and timestamp as they are.
C17_NonIncreasingTimestampIgnored ==
    [][ ( /\ ftCall'.op = "filter"
          /\ ftFilter.xPrev # Null
          /\ ftCall'.timestamp # Null
          /\ ftCall'.timestamp[1] <= ftFilter.tPrev[1] )
            => (ftOut' = ftFilter.xPrev /\ ftFilter' = ftFilter) ]_vars

\* distance below which two fixed-point values count as equal
FilterEpsilon == Scale \div 50

C19_VelocityOfTwoSamples ==
    LET v == getVelocity(trTracker)
        n == Len(trTracker.timestamps)
    IN /\ n < 2 => v = ZeroVelocity
       /\ (n >= 2 /\ trTracker.timestamps[n] - trTracker.timestamps[1] <= 0)
            => v = ZeroVelocity
       /\ ( /\ Len(trSamples) = 2
            /\ trSamples[1].timestamp # Null
            /\ trSamples[2].timestamp # Null
            /\ trSamples[2].timestamp[1] > trSamples[1].timestamp[1] )
            => LET p0 == trSamples[1].position
                   p1 == trSamples[2].position
                   ms == trSamples[2].timestamp[1] - trSamples[1].timestamp[1]
               IN /\ v.x = ((p1.x - p0.x) * 1000) \div ms
                  /\ v.y = ((p1.y - p0.y) * 1000) \div ms
                  /\ v.z = ((p1.z - p0.z) * 1000) \div ms

(***************************************************************************)
(* Properties of calculateFingerCurl                                       *)
(***************************************************************************)
\* C20: the curl of four joints is the curl of the same joints all
\* translated by one vector, and of the same joints all scaled by one
\* non-zero factor.
C20_CurlInvariant == fcMoved # Null => fcMovedCurl = fcCurl

\* a partly curled finger away from the origin was scaled by a negative
\* factor that is not a whole number
C20_Witness ==
    /\ fcMoved # Null
    /\ fcMoved.by = "scaling"
    /\ fcMoved.k = <<0 - 3, 2>>
    /\ fcJoints[1] = Pt(4, 0 - 2, 2)
    /\ fcCurl # Some(0)
    /\ fcCurl # Some(Scale)
    /\ fcMoved.joints # fcJoints

(***************************************************************************)
(* Properties of the LOD system                                            *)
(***************************************************************************)
\* C21: the LOD fraction goes down while the averaged frame rate is below
\* targetFPS - 5 and up again while it is above targetFPS + 5, and the
\* number of particles a tick updates is the particle count times the LOD
\* fraction.
C21_LODScalesUpdatedParticles ==
    /\ [][ /\ (currentFPS' < targetFPS - 5 * Scale /\ currentLOD > Scale \div 2)
                => currentLOD' < currentLOD
           /\ (currentFPS' > targetFPS + 5 * Scale /\ currentLOD < Scale)
                => currentLOD' > currentLOD ]_vars
    /\ [](updatedCount # Null
            => updatedCount[1] = (particleCount * currentLOD) \div Scale)

(***************************************************************************)
(* Properties of App.init                                                  *)
(***************************************************************************)
ReportCategories == {"Camera access denied", "No camera found", "Error initializing camera"}

\* C22: when camera.start() rejects, one report of one of the three kinds
\* is made and none before or after, mouse control is switched on, and
\* the callbacks are wired and isInitialized set by a timer that is due
\* 2000 ms after the failure, and by nothing before it.
C22_CameraFailureFallsBack ==
    /\ [][ (appStep = "awaitingCamera" /\ appStep' = "fallback")
              => /\ reports = <<>>
                 /\ Len(reports') = 1
                 /\ reports'[1].message \in ReportCategories
                 /\ mouseControlEnabled' ]_vars
    /\ []( (appStep = "fallback" /\ particleSystemMade)
              => /\ Len(reports) = 1
                 /\ mouseControlEnabled
                 /\ \/ /\ ~isInitialized
                       /\ callbacksWired = 0
                       /\ appTimers = {[due |-> failedAt[1] + fallbackDelay, run |-> "fallback"]}
                    \/ /\ isInitialized
                       /\ callbacksWired = 1
                       /\ appTimers = {}
                       /\ appClock = failedAt[1] + fallbackDelay )

\* the camera was denied, and the application runs on the mouse
C22_Witness ==
    /\ appStep = "fallback"
    /\ particleSystemMade
    /\ reports = <<errorReport([message |-> {"NotAllowedError"}])>>
    /\ isInitialized
    /\ callbacksWired = 1
    /\ mouseControlEnabled

(***************************************************************************)
(* Properties of the audio capture                                         *)
(***************************************************************************)
\* C23: once the audio toggle is off and no initAudio call is pending, no
\* microphone stream is live and no AudioContext is open, and an initAudio
\* call that failed has left neither its stream nor its context open.
C23_NoCaptureLeftOpen ==
    /\ (~audioToggle /\ pendingAudio = {})
          => (liveStreams = {} /\ openContexts = {})
    /\ (lastAudio # Null /\ ~lastAudio[1].success)
          => (lastAudio[1].call \notin liveStreams /\ lastAudio[1].call \notin openContexts)

(***************************************************************************)
(* Properties of the thumbsUp cycle                                        *)
(***************************************************************************)
\* C24: a thumbsUp event leaves the UI and the particle system on the same
\* pattern, the entry after the UI's pattern in the list of 12 (sphere
\* after tornado), and after twelve thumbsUp events in a row the pattern
\* is the one before the first.
C24_ThumbsUpCycles ==
    /\ [][ thumbsUps' = thumbsUps + 1
            => /\ psCurrentPattern' = uiCurrentPattern'
               /\ \A i \in 1..Len(patterns) :
                     patterns[i] = uiCurrentPattern
                        => uiCurrentPattern' = patterns[(i % Len(patterns)) + 1] ]_vars
    /\ [](thumbsUps = Len(patterns) => uiCurrentPattern = startPattern)

\* C25: the tracker holds the last min(k, N) of the k samples passed to
\* update since construction or the last reset, in arrival order, each with
\* the time update took for it, and as many timestamps as positions.
C25_WindowHoldsMostRecent ==
    LET k    == Len(trSamples)
        held == Min(k, trTracker.historyLength)
    IN /\ Len(trTracker.positions) = held
       /\ Len(trTracker.timestamps) = Len(trTracker.positions)
       /\ \A i \in 1..held :
             /\ trTracker.positions[i] = trSamples[k - held + i].position
             /\ trTracker.timestamps[i] = OrClock(trSamples[k - held + i].timestamp,
                                                  trSamples[k - held + i].at)

\* a window of 2 that was passed three different samples
C25_Witness ==
    /\ trTracker.historyLength = 2
    /\ Len(trSamples) = 3
    /\ trSamples[1].position # trSamples[2].position
    /\ trSamples[2].position # trSamples[3].position
    /\ trSamples[1].position # trSamples[3].position
    /\ Len(trTracker.positions) = 2

(***************************************************************************)
(* Properties of the detector after a hand was lost                        *)
(***************************************************************************)
\* C26: in the first frame with a hand after the hand was lost, the
\* openness and pinch filters hold no value when the frame comes, and the
\* snapshot's openness and pinch are the raw openness and raw pinch of
\* that frame's hand.
C26_ReseededAfterHandLost ==
    [][ ( /\ lastHandEvent = "onHandLost"
          /\ ~isHandDetected
          /\ hasHand(lastResults')
          /\ ~raised' )
            => LET landmarks == lastResults'.multiHandLandmarks[1]
               IN /\ opennessFilter.xPrev = Null
                  /\ pinchFilter.xPrev = Null
                  /\ snapshot'[1].openness =
                         calculateHandOpenness(calculateFingerCurls(landmarks))
                  /\ snapshot'[1].pinch = calculatePinchValue(landmarks) ]_vars

(***************************************************************************)
(* Properties of setPattern                                                *)
(***************************************************************************)
\* C27: a setPattern call with another pattern than the current one leaves
\* every velocity zero and basePositions a generated array of 3 *
\* particleCount coordinates, and changes neither the live positions nor
\* the particle count; a call with the current pattern changes no buffer.
C27_SetPatternResets ==
    [][ lastSetPattern' # lastSetPattern
          => IF lastSetPattern'[1] # psCurrentPattern
             THEN /\ velocities' = Float32Array(3 * particleCount, "zero")
                  /\ basePositions'.length = 3 * particleCount
                  /\ basePositions'.content \in getPatternNames
                  /\ geometry' = geometry
                  /\ particleCount' = particleCount
             ELSE UNCHANGED <<pbVars, psCurrentPattern>> ]_vars



(***************************************************************************)
(* Properties of the presets                                               *)
(***************************************************************************)
\* a loadPreset call has just been made with a preset whose keys all hold
\* values
LoadedPreset ==
    /\ lastLoad' # Null
    /\ presetOps' = presetOps + 1
    /\ \A f \in DOMAIN lastLoad'[1].preset : lastLoad'[1].preset[f] # Null

\* C28: loadPreset of a preset that lacks some of the fields does not raise,
\* applies every field that is present (the control shows the preset's value
\* and the field's change callback was invoked once) and leaves the control
\* and the particle system's setting of every absent field as they were.
C28_LoadPresetFieldByField ==
    [][ LoadedPreset =>
          LET l == lastLoad'[1]
          IN /\ ~l.raised
             /\ \A f \in PresetFields :
                   IF f \in DOMAIN l.preset
                   THEN /\ Control(f)' = l.preset[f][1]
                        /\ Invocations(l.callbacks, f) = 1
                   ELSE /\ Control(f)' = Control(f)
                        /\ Setting(f)' = Setting(f) ]_vars

\* C29: once a preset saved by saveCustomPreset has been loaded and the
\* debounce timer of the particle count has fired, every control and every
\* setting of the particle system has the value the control had when the
\* preset was saved.
C29_SavedPresetRestores ==
    (lastLoad # Null /\ countTimeout = Null) =>
        (lastLoad[1].from # Null =>
            \A f \in PresetFields :
                /\ Control(f) = lastLoad[1].from[1][f]
                /\ Setting(f) = lastLoad[1].from[1][f])

(***************************************************************************)
(* Properties of the smoothed scale                                        *)
(***************************************************************************)
\* C30: with every snapshot's openness in [0,1], currentScale stays within
\* [0.3, 1.7] whatever the order of setGestureData calls and animation
\* ticks, and each tick moves it 0.08 of the way to targetScale (to the
\* nearest thousandth), never past it.
C30_ScaleStaysInRange ==
    /\ [](300 <= currentScale /\ currentScale <= 1700)
    /\ [][ currentScale' # currentScale =>
             /\ Min(currentScale, targetScale) <= currentScale'
             /\ currentScale' <= Max(currentScale, targetScale)
             /\ Abs((currentScale' - currentScale) * 100
                      - (targetScale - currentScale) * 8) <= 50 ]_vars

\* the scale has come down to the smallest target and is now sent to the largest
C30_Witness == currentScale < 310 /\ targetScale = 1700

(***************************************************************************)
(* Properties of degenerate fingers                                        *)
(***************************************************************************)
\* the angle between the bones from joint a to b and from b to c is taken
\* between a zero-length vector and another
DegenerateAngle(a, b, c) == a = b \/ b = c

\* C32: when a joint-to-joint vector of a finger has zero length,
\* calculateFingerCurl returns a curl, and the curl is 1 when both of its
\* angles are taken with such a vector.
C32_DegenerateIsMaximalCurl ==
    fcCurl # Null =>
        /\ fcCurl[1] \in 0..Scale
        /\ (/\ DegenerateAngle(fcJoints[1], fcJoints[2], fcJoints[3])
            /\ DegenerateAngle(fcJoints[2], fcJoints[3], fcJoints[4]))
              => fcCurl = Some(Scale)

(***************************************************************************)
(* Properties of calculateHandOpenness and detectSpecialGestures           *)
(***************************************************************************)
\* C31: the raw openness is the sum of (1 - curl) of the index, middle,
\* ring and pinky fingers weighted 0.35, 0.30, 0.20 and 0.15; it lies in
\* [0,1], and the same curls with another thumb curl give the same openness.
C31_OpennessIgnoresThumb ==
    hcOpenness # Null =>
        /\ hcOpenness[1] \in 0..Scale
        /\ hcOpenness[1] = ( 350 * (Scale - hcCurls.index) + 300 * (Scale - hcCurls.middle)
                           + 200 * (Scale - hcCurls.ring) + 150 * (Scale - hcCurls.pinky) )
                             \div (350 + 300 + 200 + 150)
        /\ hcThumbOpenness = hcOpenness

\* two frames that differ in the thumb curl only, of a half-open hand
C31_Witness ==
    /\ hcOpenness # Null
    /\ hcThumb # Some(hcCurls.thumb)
    /\ hcOpenness[1] > 0
    /\ hcOpenness[1] < Scale
    /\ hcCurls.index # hcCurls.pinky

\* C33: for every five curls in [0,1] at most one of the tests for
\* thumbsUp, peace, fist and open passes, and without a pinch the label is
\* the one that passes, whatever the order of the tests ('none' when none).
C33_OneGestureAtMost ==
    hcDetected # Null =>
        /\ Cardinality(hcDetected[1].tests) <= 1
        /\ \A g \in hcDetected[1].tests : hcDetected[1].gesture = g
        /\ hcDetected[1].tests = {} => hcDetected[1].gesture = "none"

\* a peace sign: index and middle straight, ring and pinky short of the
\* open-hand thresholds
C33_Witness ==
    /\ hcDetected # Null
    /\ hcDetected[1].tests = {"peace"}
    /\ hcCurls.ring = 700

(***************************************************************************)
(* Order of the callbacks of one frame                                     *)
(***************************************************************************)
\* C34: in a frame that starts with isHandDetected false, every
\* onPinchStart and onSpecialGesture callback comes after the onHandDetected
\* callback of that frame.
C34_HandDetectedFirst ==
    [][ ~isHandDetected =>
          \A i \in 1..Len(events') :
              events'[i][1] \in {"onPinchStart", "onSpecialGesture"}
                  => \E j \in 1..(i - 1) : events'[j][1] = "onHandDetected" ]_vars

(***************************************************************************)
(* The pattern of the UI and of the particle system                        *)
(***************************************************************************)
\* C35: once initialization has finished, the particle system shows the
\* pattern the UI has selected, whenever the selections were made.
C35_PatternsAgree ==
    (isInitialized /\ particleSystemMade) => psCurrentPattern = uiCurrentPattern

(***************************************************************************)
(* Properties of the debounced particle count                              *)
(***************************************************************************)
\* the setParticleCount calls the debounce timer made since the burst began
TimerCalls == SelectSeq(dbInvoked, LAMBDA call : call.by = "timer")

\* C36: while a burst of particle-count events goes on, each less than
\* 300 ms after the one before, the debounce timer calls setParticleCount
\* not at all; when the burst is over it has called it once, 300 ms after
\* the last event and with the last event's count.
C36_DebouncedOnce ==
    dbBurst # <<>> =>
        IF dbTimers # {}
        THEN TimerCalls = <<>>
        ELSE /\ Len(TimerCalls) = 1
             /\ TimerCalls[1].count = dbBurst[Len(dbBurst)]
             /\ TimerCalls[1].since = debounceDelay

\* a burst of three events with different counts is over
C36_Witness ==
    /\ dbTimers = {}
    /\ Len(dbBurst) = 3
    /\ dbBurst[2] # dbBurst[3]
    /\ Len(TimerCalls) = 1

\* C37: once no debounce timer is pending, the particle system has as many
\* particles as the particle-count slider shows.
C37_CountFollowsSlider ==
    dbTimers = {} => particleCount = controls.particleCount


(***************************************************************************)
(* Properties of the trails                                                *)
(***************************************************************************)
\* C38: whenever trails are enabled the trail geometry has room for exactly
\* floor(particleCount / trailSampleRate) * (trailLength - 1) segments of
\* six numbers, every snapshot of trailHistory has
\* floor(particleCount / trailSampleRate) points, trailHistory has at most
\* trailLength snapshots, and the segment loop of updateTrails ends inside
\* the trail position array.
C38_TrailsSized ==
    trailsEnabled =>
        LET sampled == Floor(particleCount, trailSampleRate)
        IN /\ trailGeometry # Null
           /\ trailGeometry[1].length = sampled * (trailLength - 1) * 6
           /\ \A i \in 1..Len(trailHistory) : trailHistory[i].length = sampled * 3
           /\ Len(trailHistory) <= trailLength
           /\ trailWriteEnd(particleCount, trailHistory) <= trailGeometry[1].length


(***************************************************************************)
(* Properties of the grid parameters                                       *)
(***************************************************************************)
\* C39: for every count >= 1 no coordinate a generator has written comes
\* from a grid parameter with a zero denominator (gridV - 1, gridSize - 1,
\* baseGrid - 1, faceGrid - 1, gridX - 1, gridZ - 1): every written
\* coordinate is a finite number.
C39_NoZeroDenominator ==
    pgResult.kind = "positions" =>
        \A k \in 1..Len(pgResult.positions) : pgResult.positions[k] # "NaN"


(***************************************************************************)
(* Properties of the preset import                                         *)
(***************************************************************************)
\* C40: whenever importPresets shows 'Failed to import presets' (text that
\* is not JSON, a file without a presets array, a presets array with an
\* entry that cannot be rendered), the custom preset list and the presets
\* kept in localStorage are what they were before the import.
C40_FailedImportChangesNothing ==
    [][ (presetOps' # presetOps /\ toast' = Some(FailedToImport)) =>
            /\ customPresets' = customPresets
            /\ storedPresets' = storedPresets ]_vars

====
